---------------------------- MODULE Spec2Model ----------------------------
(***************************************************************************)
(* A model of the gift-discovery core of Constructor_Tests: the whitelist  *)
(* query builder (src/src/query_builder.py), the query sanitiser           *)
(* (src/src/query_composer.py), the bucketed query interpreter             *)
(* (src/src/query_interpreter.py), the image-choice tree and its session   *)
(* (src/streamlit_app.py) and the heuristic reranker                       *)
(* (src/src/rerank_llm.py).                                                *)
(*                                                                         *)
(* Python strings are modelled as sequences of one-character strings, so   *)
(* that lower(), strip(), join(), sorting by code point and substring      *)
(* tests are computed rather than assumed.                                 *)
(***************************************************************************)
EXTENDS Integers, Sequences, FiniteSets, TLC

VARIABLES
    qb_manifest,    \* QueryBuilder.manifest, the loaded manifest
    qb_call,        \* the arguments of the last compose_with_debug call
    qb_result,      \* what that call returned: query, categories, debug
    sq_q,           \* the argument of sanitize_query
    sq_result,      \* what sanitize_query returned
    qi_call,        \* the arguments of the last QueryInterpreter.interpret call
    qi_result,      \* what that call returned
    bt_call,        \* the arguments of the last build_greedy_tree call
    bt_result,      \* the tree that call returned
    img_leaf_ids,   \* st.session_state["img_leaf_ids"]
    img_embeddings, \* st.session_state["img_embeddings"]
    img_seed,       \* st.session_state["img_seed"]
    img_tree,       \* st.session_state["img_tree"]
    img_path_bits,  \* st.session_state["img_path_bits"]
    node_img,       \* the node the last run displayed
    img_caught,     \* whether the last run caught an exception of walk_tree
    rr_call,        \* the arguments of the last heuristic_rerank call
    rr_result,      \* what that call returned, and the sorted list it cut it from
    fb_call,        \* the catalogue records and the arguments of filter_budget_and_age
    fb_gifts,       \* the gifts made of the records
    fb_result,      \* what filter_budget_and_age returned
    rg_call,        \* the arguments of the last rank_gifts_by_taste call
    rg_result,      \* what that call returned and the path it took
    tv_call,        \* the arguments of the last build_taste_vector call
    tv_result,      \* what that call returned
    tt_call,        \* the arguments of the calls on the tag weights
    tt_weights,     \* what aggregate_tag_preferences returned
    tt_result,      \* what top_tags_from_events returned
    mm_call,        \* the arguments of the last select_next_photo_greedy_mmr call
    mm_result,      \* the id that call returned
    cf_call,        \* the argument of the last choose_final_best call
    cf_result,      \* what that call returned
    ql_call,        \* the arguments the two compared calls of interpret share
    ql_result,      \* use_llm of the last of them and what it returned
    ql_earlier,     \* use_llm of the call before it and what that returned
    ag_call,        \* the arguments of one call of the reranker and the filter
    ag_result       \* what the two returned

qb_vars == <<qb_manifest, qb_call, qb_result>>

sq_vars == <<sq_q, sq_result>>

qi_vars == <<qi_call, qi_result>>

bt_vars == <<bt_call, bt_result>>

is_vars == <<img_leaf_ids, img_embeddings, img_seed, img_tree, img_path_bits, node_img,
             img_caught>>

rr_vars == <<rr_call, rr_result>>

fb_vars == <<fb_call, fb_gifts, fb_result>>

rg_vars == <<rg_call, rg_result>>

tv_vars == <<tv_call, tv_result>>

tt_vars == <<tt_call, tt_weights, tt_result>>

mm_vars == <<mm_call, mm_result>>

cf_vars == <<cf_call, cf_result>>

ql_vars == <<ql_call, ql_result, ql_earlier>>

ag_vars == <<ag_call, ag_result>>

vars == <<qb_vars, sq_vars, qi_vars, bt_vars, is_vars, rr_vars, fb_vars, rg_vars, tv_vars, tt_vars, mm_vars, cf_vars, ql_vars, ag_vars>>

---------------------------------------------------------------------------
(* Characters and strings                                                  *)

\* ASCII code points of the characters the modelled strings are made of.
CodePoint ==
    " " :> 32 @@ "!" :> 33 @@ "#" :> 35 @@ "$" :> 36 @@ "%" :> 37 @@
    "&" :> 38 @@ "'" :> 39 @@ "(" :> 40 @@ ")" :> 41 @@ "*" :> 42 @@
    "+" :> 43 @@ "," :> 44 @@ "-" :> 45 @@ "." :> 46 @@ "/" :> 47 @@
    "0" :> 48 @@ "1" :> 49 @@ "2" :> 50 @@ "3" :> 51 @@ "4" :> 52 @@
    "5" :> 53 @@ "6" :> 54 @@ "7" :> 55 @@ "8" :> 56 @@ "9" :> 57 @@
    ":" :> 58 @@ ";" :> 59 @@ "<" :> 60 @@ "=" :> 61 @@ ">" :> 62 @@
    "?" :> 63 @@ "@" :> 64 @@ "A" :> 65 @@ "B" :> 66 @@ "C" :> 67 @@
    "D" :> 68 @@ "E" :> 69 @@ "F" :> 70 @@ "G" :> 71 @@ "H" :> 72 @@
    "I" :> 73 @@ "J" :> 74 @@ "K" :> 75 @@ "L" :> 76 @@ "M" :> 77 @@
    "N" :> 78 @@ "O" :> 79 @@ "P" :> 80 @@ "Q" :> 81 @@ "R" :> 82 @@
    "S" :> 83 @@ "T" :> 84 @@ "U" :> 85 @@ "V" :> 86 @@ "W" :> 87 @@
    "X" :> 88 @@ "Y" :> 89 @@ "Z" :> 90 @@ "[" :> 91 @@ "]" :> 93 @@
    "^" :> 94 @@ "_" :> 95 @@ "a" :> 97 @@ "b" :> 98 @@ "c" :> 99 @@
    "d" :> 100 @@ "e" :> 101 @@ "f" :> 102 @@ "g" :> 103 @@ "h" :> 104 @@
    "i" :> 105 @@ "j" :> 106 @@ "k" :> 107 @@ "l" :> 108 @@ "m" :> 109 @@
    "n" :> 110 @@ "o" :> 111 @@ "p" :> 112 @@ "q" :> 113 @@ "r" :> 114 @@
    "s" :> 115 @@ "t" :> 116 @@ "u" :> 117 @@ "v" :> 118 @@ "w" :> 119 @@
    "x" :> 120 @@ "y" :> 121 @@ "z" :> 122 @@ "{" :> 123 @@ "|" :> 124 @@
    "}" :> 125 @@ "~" :> 126


Char == DOMAIN CodePoint


\* Python's None: a value that is no string (its one element is no character).
None == <<"None">>

Range(f) == {f[i] : i \in DOMAIN f}

\* str.lower() on one character.
LowerChar ==
    [c \in Char |->
        IF CodePoint[c] \in 65..90
        THEN CHOOSE d \in Char : CodePoint[d] = CodePoint[c] + 32
        ELSE c]

\* str.lower()
Lower(s) == [i \in DOMAIN s |-> LowerChar[s[i]]]

IsSpace(c) == c = " "

RECURSIVE LStrip(_)
LStrip(s) == IF s # <<>> /\ IsSpace(Head(s)) THEN LStrip(Tail(s)) ELSE s

RECURSIVE RStrip(_)
RStrip(s) ==
    IF s # <<>> /\ IsSpace(s[Len(s)]) THEN RStrip(SubSeq(s, 1, Len(s) - 1)) ELSE s

\* str.strip()
Strip(s) == RStrip(LStrip(s))

\* sep.join(parts)
RECURSIVE Join(_, _)
Join(sep, parts) ==
    IF parts = <<>> THEN <<>>
    ELSE IF Len(parts) = 1 THEN parts[1]
    ELSE parts[1] \o sep \o Join(sep, Tail(parts))

\* str.split(): the maximal runs of non-space characters, left to right
Split(s) ==
    LET starts == {i \in DOMAIN s : ~IsSpace(s[i]) /\ (i = 1 \/ IsSpace(s[i - 1]))}
        EndOf(i) == CHOOSE j \in i..Len(s) :
                        /\ \A k \in i..j : ~IsSpace(s[k])
                        /\ j = Len(s) \/ IsSpace(s[j + 1])
        Nth(n) == CHOOSE i \in starts : Cardinality({j \in starts : j < i}) = n - 1
    IN  [n \in 1..Cardinality(starts) |-> SubSeq(s, Nth(n), EndOf(Nth(n)))]

\* "needle in hay" for strings
IsSubstring(needle, hay) ==
    \E i \in 1..(Len(hay) - Len(needle) + 1) :
        SubSeq(hay, i, i + Len(needle) - 1) = needle

\* Python's order on strings: lexicographic by code point.
RECURSIVE StrLess(_, _)
StrLess(a, b) ==
    IF b = <<>> THEN FALSE
    ELSE IF a = <<>> THEN TRUE
    ELSE IF CodePoint[Head(a)] # CodePoint[Head(b)]
         THEN CodePoint[Head(a)] < CodePoint[Head(b)]
    ELSE StrLess(Tail(a), Tail(b))

\* sorted(set_of_strings)
RECURSIVE SortedStrs(_)
SortedStrs(S) ==
    IF S = {} THEN <<>>
    ELSE LET least == CHOOSE x \in S : \A y \in S \ {x} : StrLess(x, y)
         IN  <<least>> \o SortedStrs(S \ {least})

\* str(n) for an integer
RECURSIVE IntStr(_)
IntStr(n) ==
    IF n < 0 THEN <<"-">> \o IntStr(-n)
    ELSE IF n < 10 THEN <<CHOOSE d \in Char : CodePoint[d] = 48 + n>>
    ELSE IntStr(n \div 10) \o <<CHOOSE d \in Char : CodePoint[d] = 48 + (n % 10)>>

\* seq[:k] of Python, k of either sign
PyPrefix(seq, k) ==
    IF k >= 0 THEN SubSeq(seq, 1, IF k < Len(seq) THEN k ELSE Len(seq))
    ELSE SubSeq(seq, 1, Len(seq) + k)

\* the result slot of a call that has not run yet
NoResult == [called |-> FALSE]

\* dict.get(key, default) on a dict modelled as a function
DictGet(d, key, default) == IF key \in DOMAIN d THEN d[key] ELSE default

\* d[key] = value
DictSet(d, key, value) == (key :> value) @@ d

---------------------------------------------------------------------------
(* QueryBuilder (src/src/query_builder.py)                                 *)
(*                                                                         *)
(* A manifest is the parsed JSON object: a function from its keys to their *)
(* values.  JSON objects whose key order matters to the code (synonyms,    *)
(* tag_to_categories) are sequences of key/value records in file order.    *)

\* self.allowed
allowed(m) == {Lower(t) : t \in Range(DictGet(m, "allowed_tokens", <<>>))}

\* self.forbidden
forbidden(m) == {Lower(t) : t \in Range(DictGet(m, "forbidden_tokens", <<>>))}

\* the inner loop over one canonical's aliases
RECURSIVE AddAliases(_, _, _)
AddAliases(map, canon, aliases) ==
    IF aliases = <<>> THEN map
    ELSE AddAliases(DictSet(map, Lower(Head(aliases)), canon), canon, Tail(aliases))

\* the loop over the manifest's synonyms, in file order (a later entry overwrites)
RECURSIVE AddSynonyms(_, _)
AddSynonyms(map, syn) ==
    IF syn = <<>> THEN map
    ELSE LET canon == Lower(Head(syn).canonical)
         IN  AddSynonyms(AddAliases(DictSet(map, canon, canon), canon, Head(syn).aliases),
                         Tail(syn))

\* self.syn_to_canon
syn_to_canon(m) == AddSynonyms(<<>>, DictGet(m, "synonyms", <<>>))

RECURSIVE AddCategories(_, _)
AddCategories(map, t2c) ==
    IF t2c = <<>> THEN map
    ELSE AddCategories(DictSet(map, Lower(Head(t2c).key), Head(t2c).values), Tail(t2c))

\* self.tag_to_categories
tag_to_categories(m) == AddCategories(<<>>, DictGet(m, "tag_to_categories", <<>>))

\* self.rules
rules(m) == DictGet(m, "query_rules", [min_tokens |-> 2, max_tokens |-> 6])

\* _canonicalise without the check that a synonym's canonical is not forbidden
_canonicalise_unchecked(m, tag) ==
    LET token == Lower(Strip(tag))
    IN  IF token = <<>> \/ token \in forbidden(m) THEN None
        ELSE IF token \in allowed(m) THEN token
        ELSE IF token \in DOMAIN syn_to_canon(m)
             THEN syn_to_canon(m)[token]
        ELSE None

\* QueryBuilder._canonicalise
_canonicalise(m, tag) ==
    LET token == Lower(Strip(tag))
    IN  IF token = <<>> \/ token \in forbidden(m) THEN None
        ELSE IF token \in allowed(m) THEN token
        ELSE IF token \in DOMAIN syn_to_canon(m)
                /\ syn_to_canon(m)[token] \in allowed(m)
                /\ syn_to_canon(m)[token] \notin forbidden(m)
             THEN syn_to_canon(m)[token]
        ELSE None

\* QueryBuilder._dedupe_preserve
RECURSIVE _dedupe_preserve(_)
_dedupe_preserve(seq) ==
    IF seq = <<>> THEN <<>>
    ELSE LET init == _dedupe_preserve(SubSeq(seq, 1, Len(seq) - 1))
             item == seq[Len(seq)]
         IN  IF item \in Range(init) THEN init ELSE Append(init, item)

\* raw_tags: the tags that are instances of str
RECURSIVE StrTags(_)
StrTags(photo_tags) ==
    IF photo_tags = <<>> THEN <<>>
    ELSE IF Head(photo_tags).isstr
         THEN <<Head(photo_tags).text>> \o StrTags(Tail(photo_tags))
         ELSE StrTags(Tail(photo_tags))

\* the classification loop of compose_with_debug over raw_tags
RECURSIVE ClassifyTags(_, _, _)
ClassifyTags(m, raw_tags, acc) ==
    IF raw_tags = <<>> THEN acc
    ELSE LET token == Lower(Strip(Head(raw_tags)))
             canonical == _canonicalise(m, token)
             next ==
                IF token = <<>> THEN acc
                ELSE IF token \in forbidden(m)
                     THEN [acc EXCEPT !.dropped_forbidden = Append(@, token)]
                ELSE IF canonical = None
                     THEN [acc EXCEPT !.dropped_not_allowed = Append(@, token)]
                ELSE [acc EXCEPT !.filtered = Append(@, canonical)]
         IN  ClassifyTags(m, Tail(raw_tags), next)

\* a truncation that keeps one token too many
Truncate_off_by_one(filtered, max_tokens) ==
    IF max_tokens # 0 THEN PyPrefix(filtered, max_tokens + 1) ELSE filtered

\* the truncation to max_tokens ("if max_tokens:" skips it for 0)
Truncate(filtered, max_tokens) ==
    IF max_tokens # 0 THEN PyPrefix(filtered, max_tokens) ELSE filtered

\* the sorted set of the manifest categories of the kept tokens
CategoriesOf(m, filtered) ==
    SortedStrs(UNION {Range(DictGet(tag_to_categories(m), t, <<>>)) : t \in Range(filtered)})

\* the budget suffix
WithBudget(query, budget) ==
    IF budget # None
    THEN query \o <<" ">> \o <<"u","n","d","e","r">> \o <<" ">> \o IntStr(budget[2])
               \o <<" ">> \o <<"A","U","D">>
    ELSE query

\* a choice that needs more than min_tokens tokens for a token query
ChooseQuery_strict(filtered, categories, min_tokens, budget) ==
    IF Len(filtered) > (IF min_tokens > 0 THEN min_tokens ELSE 0)
    THEN WithBudget(Join(<<" ">>, filtered), budget)
    ELSE IF categories # <<>> THEN Join(<<" ">>, categories)
    ELSE None

\* the choice among token query, category fallback and None
ChooseQuery(filtered, categories, min_tokens, budget) ==
    IF Len(filtered) >= (IF min_tokens > 0 THEN min_tokens ELSE 0)
    THEN WithBudget(Join(<<" ">>, filtered), budget)
    ELSE IF categories # <<>> THEN Join(<<" ">>, categories)
    ELSE None

\* QueryBuilder.compose_with_debug
compose_with_debug(m, photo_tags, budget) ==
    LET raw_tags == StrTags(photo_tags)
        lists == ClassifyTags(m, raw_tags,
                    [filtered |-> <<>>, dropped_forbidden |-> <<>>,
                     dropped_not_allowed |-> <<>>])
        max_tokens == DictGet(rules(m), "max_tokens", 6)
        min_tokens == DictGet(rules(m), "min_tokens", 2)
        filtered == Truncate(_dedupe_preserve(lists.filtered), max_tokens)
        categories == CategoriesOf(m, filtered)
    IN  [query |-> ChooseQuery(filtered, categories, min_tokens, budget),
         categories |-> categories,
         debug |-> [raw_tags |-> raw_tags,
                    filtered_tokens |-> filtered,
                    dropped_forbidden |-> _dedupe_preserve(lists.dropped_forbidden),
                    dropped_not_allowed |-> _dedupe_preserve(lists.dropped_not_allowed),
                    categories |-> categories,
                    min_tokens |-> min_tokens,
                    max_tokens |-> max_tokens]]

---------------------------------------------------------------------------
(* The manifests and calls the builder is exercised on                     *)

\* longest photo_tags list passed to compose
MaxTags == 3

\* largest min_tokens / max_tokens a manifest's query_rules sets
MaxRule == 2

\* A str tag and a tag that is not a str (an object whose __str__ is text).
StrTag(s) == [isstr |-> TRUE, text |-> s]
ObjTag(s) == [isstr |-> FALSE, text |-> s]

\* The vocabulary of tests/test_query_builder.py::test_basic_compose, with
\* categories for two tokens.
PlainVocabulary ==
    [allowed_tokens |-> <<<<"o","u","t","d","o","o","r">>, <<"r","e","t","r","o">>, <<"c","o","z","y">>>>,
     forbidden_tokens |-> <<<<"k","i","d","s">>, <<"m","e","n">>>>,
     synonyms |-> <<[canonical |-> <<"c","o","z","y">>, aliases |-> <<<<"c","o","s","y">>, <<"s","n","u","g">>>>]>>,
     tag_to_categories |->
        <<[key |-> <<"o","u","t","d","o","o","r">>, values |-> <<<<"T","r","a","v","e","l">>, <<"O","u","t","d","o","o","r","s">>>>],
          [key |-> <<"r","e","t","r","o">>, values |-> <<<<"H","o","m","e">>>>]>>]

\* A vocabulary whose lists overlap: "men" is allowed and forbidden, "omen" is
\* allowed and contains a forbidden term, an alias leads to a forbidden
\* canonical, another to a canonical that is not allowed, and a category is
\* spelled like a forbidden term.
OverlappingVocabulary ==
    [allowed_tokens |-> <<<<"O","u","t","d","o","o","r">>, <<"m","e","n">>, <<"o","m","e","n">>, <<"c","o","z","y">>>>,
     forbidden_tokens |-> <<<<"M","E","N">>, <<"k","i","d","s">>>>,
     synonyms |-> <<[canonical |-> <<"m","e","n">>, aliases |-> <<<<"s","n","u","g">>>>],
                    [canonical |-> <<"r","e","t","r","o">>, aliases |-> <<<<"u","n","k","n","o","w","n">>>>],
                    [canonical |-> <<"C","o","z","y">>, aliases |-> <<<<"c","o","s","y">>>>]>>,
     tag_to_categories |->
        <<[key |-> <<"O","u","t","d","o","o","r">>, values |-> <<<<"k","i","d","s">>, <<"H","o","m","e">>>>],
          [key |-> <<"c","o","z","y">>, values |-> <<<<"H","o","m","e">>>>]>>]

Vocabularies == {PlainVocabulary, OverlappingVocabulary}

QueryRules ==
    {[min_tokens |-> a, max_tokens |-> b] : a \in 0..MaxRule, b \in 0..MaxRule}
        \cup {[min_tokens |-> 1]}

\* with and without a query_rules entry
Manifests ==
    {v @@ [query_rules |-> r] : v \in Vocabularies, r \in QueryRules} \cup Vocabularies

TagPool ==
    {StrTag(<<"O","u","t","d","o","o","r">>), StrTag(<<" ">> \o <<"r","e","t","r","o">> \o <<" ">>), StrTag(<<"c","o","s","y">>),
     StrTag(<<"s","n","u","g">>), StrTag(<<"o","m","e","n">>), StrTag(<<"M","E","N">>), ObjTag(<<"k","i","d","s">>)}

RECURSIVE SeqsUpTo(_, _)
SeqsUpTo(S, n) ==
    IF n = 0 THEN {<<>>}
    ELSE LET shorter == SeqsUpTo(S, n - 1)
         IN  shorter \cup {Append(q, x) : q \in {r \in shorter : Len(r) = n - 1}, x \in S}

TagLists == SeqsUpTo(TagPool, MaxTags)

Budgets == {None, <<25, 100>>}

---------------------------------------------------------------------------
(* The builder as a state machine: a manifest is loaded and a call is     *)
(* pending; compose_with_debug runs on it.                                 *)

QBInit ==
    /\ qb_manifest \in Manifests
    /\ qb_call \in [photo_tags : TagLists, budget : Budgets]
    /\ qb_result = NoResult

\* QueryBuilder.compose / compose_with_debug
Compose ==
    /\ ~qb_result.called
    /\ qb_result' = [called |-> TRUE]
                        @@ compose_with_debug(qb_manifest, qb_call.photo_tags, qb_call.budget)
    /\ UNCHANGED <<qb_manifest, qb_call>>

QBIdle == qb_manifest = <<>> /\ qb_call = NoResult /\ qb_result = NoResult

---------------------------------------------------------------------------
(* Claims about QueryBuilder                                               *)

Called == qb_result.called

Debug == qb_result.debug

\* the normalised form of a raw tag
TokenOf(raw) == Lower(Strip(raw))

\* tok is spelled as t, or the manifest lists it as an alias of canonical t
IsSynonymOf(m, tok, t) ==
    \E e \in Range(DictGet(m, "synonyms", <<>>)) :
        /\ Lower(e.canonical) = t
        /\ tok \in {t} \cup {Lower(a) : a \in Range(e.aliases)}

\* C1: strict allow-list.  Every filtered token is an allowed token of the
\* manifest and not a forbidden one (both lower-cased), and it is the
\* normalised form, or the canonical of the normalised form, of some raw tag:
\* nothing that is neither allowed nor a synonym of an allowed canonical
\* passes.
C1_StrictAllowList ==
    Called =>
        \A t \in Range(Debug.filtered_tokens) :
            /\ t \in {Lower(a) : a \in Range(qb_manifest.allowed_tokens)}
            /\ t \notin {Lower(f) : f \in Range(qb_manifest.forbidden_tokens)}
            /\ \E raw \in Range(Debug.raw_tags) :
                  TokenOf(raw) = t \/ IsSynonymOf(qb_manifest, TokenOf(raw), t)

\* C1 witness: a call that kept a token reached through an alias and dropped
\* both a forbidden tag and an unknown one.
C1_Witness ==
    /\ Called
    /\ \E t \in Range(Debug.filtered_tokens) :
          \A raw \in Range(Debug.raw_tags) : TokenOf(raw) # t
    /\ Debug.dropped_forbidden # <<>>
    /\ Debug.dropped_not_allowed # <<>>

\* C2 (as claimed): no query returned by compose contains a forbidden term of
\* the manifest as a substring.
C2_NoForbiddenSubstring ==
    (Called /\ qb_result.query # None) =>
        \A f \in forbidden(qb_manifest) : ~IsSubstring(f, qb_result.query)

\* the budget suffix of a token query
BudgetSuffix(budget) ==
    <<" ">> \o <<"u","n","d","e","r">> \o <<" ">> \o IntStr(budget[2]) \o <<" ">> \o <<"A","U","D">>

EndsWith(s, suffix) ==
    Len(suffix) <= Len(s) /\ SubSeq(s, Len(s) - Len(suffix) + 1, Len(s)) = suffix

\* the number of content tokens of a query: its words, the budget suffix apart
ContentTokens(query, budget) ==
    IF budget # None /\ EndsWith(query, BudgetSuffix(budget))
    THEN Len(Split(SubSeq(query, 1, Len(query) - Len(BudgetSuffix(budget)))))
    ELSE Len(Split(query))

\* C5 (as claimed): for any query_rules, the query has at most max_tokens
\* content tokens and filtered_tokens has at most max_tokens entries.
C5_TokenBudget ==
    Called =>
        /\ Len(Debug.filtered_tokens) <= Debug.max_tokens
        /\ qb_result.query # None =>
              ContentTokens(qb_result.query, qb_call.budget) <= Debug.max_tokens

\* C5 (amended): when max_tokens is at least 1, filtered_tokens has at most
\* max_tokens entries and every query is the category fallback or has at most
\* max_tokens content tokens.
C5_TokenBudgetPositive ==
    (Called /\ Debug.max_tokens >= 1) =>
        /\ Len(Debug.filtered_tokens) <= Debug.max_tokens
        /\ qb_result.query # None =>
              \/ ContentTokens(qb_result.query, qb_call.budget) <= Debug.max_tokens
              \/ /\ qb_result.categories # <<>>
                 /\ qb_result.query = Join(<<" ">>, qb_result.categories)

\* C5 witness: more distinct allowed tags than max_tokens, cut to a token query
\* of exactly max_tokens tokens.
C5_Witness ==
    /\ Called
    /\ Debug.max_tokens >= 1
    /\ Cardinality({_canonicalise(qb_manifest, raw) : raw \in Range(Debug.raw_tags)}
                        \ {None}) > Debug.max_tokens
    /\ Len(Debug.filtered_tokens) = Debug.max_tokens
    /\ qb_result.query # None
    /\ qb_call.budget # None
    /\ ContentTokens(qb_result.query, qb_call.budget) = Debug.max_tokens

\* C6: the three outcomes of compose, in order: a token query when there are
\* at least min_tokens tokens (with the budget suffix when a budget is
\* given), else the sorted categories joined, else None; the categories are
\* the sorted duplicate-free union of the kept tokens' manifest categories.
C6_ThreeOutcomes ==
    Called =>
        LET ft == Debug.filtered_tokens
            cats == qb_result.categories
            tokenQuery == Join(<<" ">>, ft)
        IN  /\ Range(cats) =
                  UNION {Range(DictGet(tag_to_categories(qb_manifest), t, <<>>)) :
                            t \in Range(ft)}
            /\ \A i, j \in DOMAIN cats : i < j => StrLess(cats[i], cats[j])
            /\ IF Len(ft) >= Debug.min_tokens
               THEN qb_result.query =
                        (IF qb_call.budget = None THEN tokenQuery
                         ELSE tokenQuery \o BudgetSuffix(qb_call.budget))
               ELSE IF cats # <<>>
                    THEN qb_result.query = Join(<<" ">>, cats)
               ELSE qb_result.query = None

\* C6 witness: too few tokens, and the query falls back to two categories.
C6_Witness ==
    /\ Called
    /\ Debug.filtered_tokens # <<>>
    /\ Len(Debug.filtered_tokens) < Debug.min_tokens
    /\ Len(qb_result.categories) = 2
    /\ qb_result.query = Join(<<" ">>, qb_result.categories)

---------------------------------------------------------------------------
(* sanitize_query (src/src/query_composer.py)                              *)

\* FORBIDDEN_TERMS, in the order of the tuple
FORBIDDEN_TERMS ==
    <<<<"g","i","r","l">>,
      <<"g","i","r","l","s">>,
      <<"b","o","y">>,
      <<"b","o","y","s">>,
      <<"w","o","m","a","n">>,
      <<"w","o","m","e","n">>,
      <<"m","a","n">>,
      <<"m","e","n">>,
      <<"l","a","d","y">>,
      <<"l","a","d","i","e","s">>,
      <<"g","e","n","t">>,
      <<"g","e","n","t","s">>,
      <<"a","d","u","l","t">>,
      <<"a","d","u","l","t","s">>,
      <<"t","e","e","n">>,
      <<"t","e","e","n","s">>,
      <<"k","i","d">>,
      <<"k","i","d","s">>,
      <<"c","h","i","l","d">>,
      <<"c","h","i","l","d","r","e","n">>,
      <<"f","o","r"," ","h","i","m">>,
      <<"f","o","r"," ","h","e","r">>,
      <<"f","o","r"," ","b","o","y","s">>,
      <<"f","o","r"," ","g","i","r","l","s">>,
      <<"m","u","m">>,
      <<"m","o","m">>,
      <<"d","a","d">>,
      <<"g","r","a","n","d","m","a">>,
      <<"g","r","a","n","d","p","a">>>>

\* \w of the re module, on the modelled characters
IsWordChar(c) ==
    \/ CodePoint[c] \in 48..57
    \/ CodePoint[c] \in 65..90
    \/ CodePoint[c] \in 97..122
    \/ c = "_"

\* \b before position i of s (positions 1..Len(s)+1)
WordBoundary(s, i) ==
    LET before == i > 1 /\ IsWordChar(s[i - 1])
        after == i <= Len(s) /\ IsWordChar(s[i])
    IN  before # after

\* the literal lit at position i of s, ignoring case: the position after it, or 0
MatchLiteral(lit, s, i) ==
    IF i + Len(lit) - 1 <= Len(s) /\ Lower(SubSeq(s, i, i + Len(lit) - 1)) = Lower(lit)
    THEN i + Len(lit) ELSE 0

\* the position after the whitespace run that starts at i
RECURSIVE SkipSpaces(_, _)
SkipSpaces(s, i) == IF i <= Len(s) /\ IsSpace(s[i]) THEN SkipSpaces(s, i + 1) ELSE i

\* part1 \s+ part2 ... at position i: the position after the match, or 0
RECURSIVE MatchParts(_, _, _)
MatchParts(parts, s, i) ==
    LET e == MatchLiteral(Head(parts), s, i)
    IN  IF e = 0 THEN 0
        ELSE IF Len(parts) = 1 THEN e
        ELSE IF SkipSpaces(s, e) = e THEN 0
        ELSE MatchParts(Tail(parts), s, SkipSpaces(s, e))

\* the pattern \b part1 \s+ part2 ... \b of one forbidden term, at position i
MatchTerm(term, s, i) ==
    LET e == IF WordBoundary(s, i) THEN MatchParts(Split(term), s, i) ELSE 0
    IN  IF e # 0 /\ WordBoundary(s, e) THEN e ELSE 0

\* the pattern \bgift\s*-?cards?\b at position i
MatchGiftCard(s, i) ==
    LET g == IF WordBoundary(s, i) THEN MatchLiteral(<<"g","i","f","t">>, s, i) ELSE 0
        h == SkipSpaces(s, g)
        k == IF h <= Len(s) /\ s[h] = "-" THEN h + 1 ELSE h
        c == MatchLiteral(<<"c","a","r","d">>, s, k)
        e == IF c # 0 /\ c <= Len(s) /\ LowerChar[s[c]] = "s" THEN c + 1 ELSE c
    IN  IF g # 0 /\ c # 0 /\ WordBoundary(s, e) THEN e ELSE 0

\* pattern.sub(repl, s) for a pattern given by its match operator: the
\* leftmost non-overlapping matches, left to right
RECURSIVE SubFrom(_, _, _, _, _)
SubFrom(Match(_, _), repl, s, i, out) ==
    IF i > Len(s) THEN out
    ELSE IF Match(s, i) # 0 THEN SubFrom(Match, repl, s, Match(s, i), out \o repl)
    ELSE SubFrom(Match, repl, s, i + 1, Append(out, s[i]))

\* sorted(FORBIDDEN_TERMS, key=len, reverse=True): stable, longest first
RECURSIVE SortedByLenDesc(_)
SortedByLenDesc(terms) ==
    IF terms = <<>> THEN <<>>
    ELSE LET rest == SortedByLenDesc(SubSeq(terms, 1, Len(terms) - 1))
             last == terms[Len(terms)]
             keep == Cardinality({i \in DOMAIN rest : Len(rest[i]) >= Len(last)})
         IN  SubSeq(rest, 1, keep) \o <<last>> \o SubSeq(rest, keep + 1, Len(rest))

\* the loop that removes each forbidden term in turn
RECURSIVE RemoveTerms(_, _)
RemoveTerms(terms, cleaned) ==
    IF terms = <<>> THEN cleaned
    ELSE LET term == Head(terms)
             M(s, i) == MatchTerm(term, s, i)
         IN  RemoveTerms(Tail(terms), SubFrom(M, <<" ">>, cleaned, 1, <<>>))

\* re.sub(r"\s+", " ", s)
RECURSIVE CollapseSpaces(_)
CollapseSpaces(s) ==
    IF s = <<>> THEN <<>>
    ELSE IF IsSpace(Head(s)) THEN <<" ">> \o CollapseSpaces(LStrip(s))
    ELSE <<Head(s)>> \o CollapseSpaces(Tail(s))

IsPunct(c) == c \in {".", ",", ";", ":", "!", "?"}

\* re.sub(r"\s+([.,;:!?])", r"\1", s)
RECURSIVE TightenPunct(_)
TightenPunct(s) ==
    IF s = <<>> THEN <<>>
    ELSE IF IsSpace(Head(s)) /\ LStrip(s) # <<>> /\ IsPunct(Head(LStrip(s)))
         THEN TightenPunct(LStrip(s))
    ELSE <<Head(s)>> \o TightenPunct(Tail(s))

\* sanitize_query
sanitize_query(q) ==
    IF q = <<>> THEN <<>>
    ELSE LET termsOut == RemoveTerms(SortedByLenDesc(FORBIDDEN_TERMS), q)
             cardsOut == SubFrom(MatchGiftCard, <<>>, termsOut, 1, <<>>)
         IN  TightenPunct(Strip(CollapseSpaces(cardsOut)))

---------------------------------------------------------------------------
(* The queries the sanitiser is exercised on: pieces joined by one space   *)

\* most pieces (words, blanks, punctuation) in a query
MaxPieces == 3

PiecePool ==
    {<<"f","o","r">>, <<"h","e","r">>, <<"g","i","r","l">>, <<"B","o","y","s">>, <<"g","i","f","t">>, <<"c","a","r","d","s">>, <<"c","o","z","y">>,
     <<"!">>, <<>>}

DirtyQueries == {Join(<<" ">>, ps) : ps \in SeqsUpTo(PiecePool, MaxPieces)}

SQInit ==
    /\ sq_q \in DirtyQueries
    /\ sq_result = NoResult

SQIdle == sq_q = <<>> /\ sq_result = NoResult

\* sanitize_query
Sanitize ==
    /\ ~sq_result.called
    /\ sq_result' = [called |-> TRUE, cleaned |-> sanitize_query(sq_q)]
    /\ UNCHANGED sq_q

---------------------------------------------------------------------------
(* QueryInterpreter (src/src/query_interpreter.py)                         *)

\* FORBIDDEN
FORBIDDEN ==
    {<<"g","i","r","l">>, <<"g","i","r","l","s">>, <<"b","o","y">>, <<"b","o","y","s">>, <<"w","o","m","a","n">>, <<"w","o","m","e","n">>,
     <<"m","a","n">>, <<"m","e","n">>, <<"f","e","m","a","l","e">>, <<"m","a","l","e">>, <<"a","d","u","l","t">>, <<"a","d","u","l","t","s">>,
     <<"k","i","d","s">>, <<"c","h","i","l","d","r","e","n">>, <<"m","u","m">>, <<"m","o","m">>, <<"d","a","d">>, <<"g","r","a","n","d","m","a">>,
     <<"g","r","a","n","d","p","a">>, <<"l","a","d","y">>, <<"g","e","n","t","l","e","m","a","n">>}

\* TOKEN_TO_COHORT
TOKEN_TO_COHORT ==
    (<<"v","i","n","t","a","g","e">> :> <<"G","e","n"," ","X"," ","/"," ","M","i","l","l","e","n","n","i","a","l"," ","n","o","s","t","a","l","g","i","a">>) @@
    (<<"r","e","t","r","o">> :> <<"M","i","l","l","e","n","n","i","a","l"," ","n","o","s","t","a","l","g","i","a">>) @@
    (<<"9","0","s">> :> <<"G","e","n"," ","X"," ","/"," ","M","i","l","l","e","n","n","i","a","l">>) @@
    (<<"a","e","s","t","h","e","t","i","c">> :> <<"G","e","n"," ","Z">>) @@
    (<<"f","e","s","t","i","v","a","l">> :> <<"G","e","n"," ","Z"," ","/"," ","M","i","l","l","e","n","n","i","a","l">>) @@
    (<<"c","l","a","s","s","i","c">> :> <<"G","e","n"," ","X"," ","/"," ","B","o","o","m","e","r">>) @@
    (<<"p","o","l","a","r","o","i","d">> :> <<"G","e","n"," ","X"," ","/"," ","M","i","l","l","e","n","n","i","a","l">>) @@
    (<<"n","e","o","n">> :> <<"G","e","n"," ","Z">>)

\* SAFE_RECIPIENT_TOKENS
SAFE_RECIPIENT_TOKENS == {<<"c","o","u","p","l","e">>, <<"r","i","n","g">>, <<"w","e","d","d","i","n","g">>, <<"a","n","n","i","v","e","r","s","a","r","y">>}

\* STYLE_PHRASES
STYLE_PHRASES ==
    (<<"c","a","s","u","a","l">> :> <<"c","a","s","u","a","l">>) @@
    (<<"m","i","n","i","m","a","l","i","s","t">> :> <<"p","l","a","i","n">>) @@
    (<<"p","r","a","c","t","i","c","a","l">> :> <<"p","r","a","c","t","i","c","a","l">>) @@
    (<<"r","e","t","r","o">> :> <<"r","e","t","r","o">>) @@
    (<<"9","0","s">> :> <<"9","0","s"," ","t","w","i","s","t">>) @@
    (<<"p","r","e","m","i","u","m">> :> <<"p","r","e","m","i","u","m">>)

\* COHORT_PHRASE
COHORT_PHRASE ==
    (<<"G","e","n"," ","Z">> :> <<"w","i","t","h"," ","a"," ","G","e","n"," ","Z"," ","v","i","b","e">>) @@
    (<<"M","i","l","l","e","n","n","i","a","l">> :> <<"w","i","t","h"," ","M","i","l","l","e","n","n","i","a","l"," ","n","o","s","t","a","l","g","i","a">>) @@
    (<<"G","e","n"," ","X">> :> <<"w","i","t","h"," ","G","e","n"," ","X"," ","s","e","n","s","i","b","i","l","i","t","y">>) @@
    (<<"B","o","o","m","e","r">> :> <<"c","l","a","s","s","i","c">>)

\* a Python value that is false in a condition (None or the empty string)
Falsy(x) == x = None \/ x = <<>>

\* s.replace(old, new) for one-character old and new
ReplaceChar(s, old, new) == [i \in DOMAIN s |-> IF s[i] = old THEN new ELSE s[i]]

\* the first loop of _normalise
RECURSIVE NormaliseEach(_)
NormaliseEach(xs) ==
    IF xs = <<>> THEN <<>>
    ELSE LET t == IF Falsy(Head(xs)) THEN <<>> ELSE Lower(Strip(Head(xs)))
             u == ReplaceChar(t, "_", "-")
             v == IF u = <<"c","o","s","y">> THEN <<"c","o","z","y">> ELSE u
         IN  (IF t = <<>> \/ t \in FORBIDDEN THEN <<>> ELSE <<v>>)
                 \o NormaliseEach(Tail(xs))

\* _normalise: clean each token, then keep the first of each
_normalise(xs) == _dedupe_preserve(NormaliseEach(xs))

\* the manifest the interpreter is constructed with: tag_to_categories as
\* (key, categories) pairs
QIManifest ==
    [tag_to_categories |->
        <<<<<<"R","e","t","r","o">>, <<<<"F","a","s","h","i","o","n">>>>>>,
          <<<<"r","i","n","g">>, <<<<"J","e","w","e","l","l","e","r","y">>, <<"O","c","c","a","s","i","o","n">>>>>>>>]

\* QueryInterpreter.__init__: self.tag_to_categories, keys in lower case
self_tag_to_categories ==
    LET pairs == Range(QIManifest.tag_to_categories)
    IN  [k \in {Lower(p[1]) : p \in pairs} |->
            (CHOOSE p \in pairs : Lower(p[1]) = k)[2]]

\* QueryInterpreter._expand_categories
_expand_categories(tokens, base_categories) ==
    SortedStrs(Range(base_categories) \cup
               UNION {Range(DictGet(self_tag_to_categories, tokens[i], <<>>)) :
                          i \in DOMAIN tokens})

\* _recipient_phrase
_recipient_phrase(recipient) ==
    LET rec == Lower(IF Falsy(recipient) THEN <<"m","e">> ELSE recipient)
        phrases == (<<"m","e">> :> <<"f","o","r"," ","m","e">>) @@
                   (<<"m","a","n">> :> <<"f","o","r"," ","m","e","n">>) @@
                   (<<"w","o","m","a","n">> :> <<"f","o","r"," ","w","o","m","e","n">>) @@
                   (<<"t","e","e","n">> :> <<"f","o","r"," ","t","e","e","n","s">>) @@
                   (<<"k","i","d">> :> <<"f","o","r"," ","k","i","d","s">>) @@
                   (<<"c","o","u","p","l","e">> :> <<"f","o","r"," ","c","o","u","p","l","e","s">>) @@
                   (<<"f","a","m","i","l","y">> :> <<"f","o","r"," ","f","a","m","i","l","i","e","s">>)
    IN  DictGet(phrases, rec, <<"f","o","r"," ","m","e">>)

\* _palette_phrase
_palette_phrase(colours) ==
    LET known(c) == c \in {<<"b","l","a","c","k">>, <<"b","l","u","e">>, <<"n","e","u","t","r","a","l">>, <<"e","a","r","t","h","y">>}
        keep == SelectSeq(colours, known)
    IN  IF keep = <<>> THEN <<>> ELSE <<"i","n"," ">> \o Join(<<" ","a","n","d"," ">>, keep)

\* _styles_phrase: the pair (style_str, practical)
_styles_phrase(styles) ==
    IF styles = <<>> THEN [style_str |-> <<>>, practical |-> <<>>]
    ELSE LET mapped == [i \in DOMAIN styles |->
                           DictGet(STYLE_PHRASES, Lower(styles[i]), Lower(styles[i]))]
         IN  [style_str |-> Join(<<" ">>, SortedStrs(Range(mapped))),
              practical |->
                  IF <<"p","r","a","c","t","i","c","a","l">> \in Range(mapped) THEN <<"t","h","a","t"," ","a","r","e"," ","p","r","a","c","t","i","c","a","l">>
                  ELSE IF <<"p","l","a","i","n">> \in Range(mapped)
                       THEN <<"t","h","a","t"," ","a","r","e"," ","p","l","a","i","n"," ","a","n","d"," ","p","r","a","c","t","i","c","a","l">>
                  ELSE <<>>]

\* _themes_from_tokens
_themes_from_tokens(tokens) ==
    LET keep == Range(tokens) \cap
                    {<<"p","h","i","l","o","s","o","p","h","y">>, <<"a","r","t">>, <<"t","e","c","h">>, <<"n","a","t","u","r","e">>,
                     <<"d","e","s","i","g","n">>, <<"b","o","o","k">>}
    IN  IF keep = {} THEN <<"p","h","i","l","o","s","o","p","h","y"," ","a","n","d"," ","t","e","c","h">>
        ELSE Join(<<" ","a","n","d"," ">>, SortedStrs(keep))

\* any(t in tokens for t in words)
AnyIn(tokens, words) == Range(tokens) \cap words # {}

\* the bucket selection of _compose_queries_multi, in the order of its tests
MatchedBuckets(tokens, categories) ==
    LET cats == Range(categories)
        pick(cond, b) == IF cond THEN <<b>> ELSE <<>>
    IN  pick(<<"F","a","s","h","i","o","n">> \in cats
                 \/ AnyIn(tokens, {<<"c","a","s","u","a","l">>, <<"r","e","t","r","o">>, <<"9","0","s">>, <<"m","i","n","i","m","a","l","i","s","t">>}),
             <<"F","a","s","h","i","o","n">>)
        \o pick(<<"B","o","o","k","s">> \in cats
                    \/ AnyIn(tokens, {<<"b","o","o","k">>, <<"b","o","o","k","s">>, <<"p","h","i","l","o","s","o","p","h","y">>, <<"a","r","t">>,
                                      <<"t","e","c","h">>, <<"d","e","s","i","g","n">>}),
                <<"B","o","o","k","s">>)
        \o pick(<<"T","e","c","h">> \in cats \/ <<"t","e","c","h">> \in Range(tokens), <<"T","e","c","h">>)
        \o pick(<<"O","u","t","d","o","o","r","s">> \in cats
                    \/ AnyIn(tokens, {<<"o","u","t","d","o","o","r">>, <<"n","a","t","u","r","e">>, <<"h","i","k","i","n","g">>, <<"c","a","m","p","i","n","g">>,
                                      <<"s","u","m","m","e","r">>, <<"s","u","n">>, <<"b","e","a","c","h">>}),
                <<"O","u","t","d","o","o","r","s">>)
        \o pick(<<"H","o","m","e">> \in cats \/ <<"w","i","n","d","o","w">> \in Range(tokens), <<"H","o","m","e">>)
        \o pick(<<"E","n","t","e","r","t","a","i","n","m","e","n","t">> \in cats
                    \/ AnyIn(tokens, {<<"g","a","m","i","n","g">>, <<"r","e","c","o","r","d","s">>, <<"m","u","s","i","c">>,
                                      <<"e","n","t","e","r","t","a","i","n","m","e","n","t">>}),
                <<"E","n","t","e","r","t","a","i","n","m","e","n","t">>)

\* the buckets, were the list not cut to five
ChooseBuckets_uncut(tokens, categories, recipient) ==
    LET matched == MatchedBuckets(tokens, categories)
        buckets == IF matched = <<>> THEN <<<<"T","e","c","h">>, <<"B","o","o","k","s">>>> ELSE matched
        deduped == _dedupe_preserve(buckets)
        fresh(c) == c \notin Range(deduped)
        added == deduped \o SelectSeq(<<<<"H","o","m","e">>, <<"F","a","s","h","i","o","n">>, <<"E","n","t","e","r","t","a","i","n","m","e","n","t">>>>, fresh)
        seen(b) == b \in Range(added)
        priority == <<<<"H","o","m","e">>, <<"F","a","s","h","i","o","n">>, <<"E","n","t","e","r","t","a","i","n","m","e","n","t">>, <<"T","e","c","h">>,
                      <<"B","o","o","k","s">>, <<"O","u","t","d","o","o","r","s">>>>
        first == SelectSeq(priority, seen)
        late(b) == b \notin Range(first)
        ordered == first \o SelectSeq(added, late)
        final == IF recipient = <<"c","o","u","p","l","e">> THEN ordered ELSE deduped
    IN  IF final = <<>> THEN <<<<"T","e","c","h">>, <<"B","o","o","k","s">>>> ELSE final

\* the buckets _compose_queries_multi writes queries for
ChooseBuckets(tokens, categories, recipient) ==
    LET matched == MatchedBuckets(tokens, categories)
        buckets == IF matched = <<>> THEN <<<<"T","e","c","h">>, <<"B","o","o","k","s">>>> ELSE matched
        deduped == _dedupe_preserve(buckets)
        fresh(c) == c \notin Range(deduped)
        added == deduped \o SelectSeq(<<<<"H","o","m","e">>, <<"F","a","s","h","i","o","n">>, <<"E","n","t","e","r","t","a","i","n","m","e","n","t">>>>, fresh)
        seen(b) == b \in Range(added)
        priority == <<<<"H","o","m","e">>, <<"F","a","s","h","i","o","n">>, <<"E","n","t","e","r","t","a","i","n","m","e","n","t">>, <<"T","e","c","h">>,
                      <<"B","o","o","k","s">>, <<"O","u","t","d","o","o","r","s">>>>
        first == SelectSeq(priority, seen)
        late(b) == b \notin Range(first)
        ordered == first \o SelectSeq(added, late)
        final == PyPrefix(IF recipient = <<"c","o","u","p","l","e">> THEN ordered ELSE deduped, 5)
    IN  IF final = <<>> THEN <<<<"T","e","c","h">>, <<"B","o","o","k","s">>>> ELSE final

\* BUCKET_TEMPLATES[b].format(**f)
BUCKET_TEMPLATES(b, f) ==
    LET tail == f.recipient_phrase \o <<" ">> \o f.cohort_twist \o <<" ","u","n","d","e","r"," ">> \o f.hi
    IN  CASE b = <<"F","a","s","h","i","o","n">> ->
               f.styles \o <<" ">> \o f.palette \o <<" ","c","l","o","t","h","e","s"," ">> \o tail
          [] b = <<"B","o","o","k","s">> ->
               <<"b","o","o","k","s"," ","a","n","d"," ","i","d","e","a","s"," ","o","n"," ">> \o f.themes \o <<" ">> \o tail
          [] b = <<"T","e","c","h">> ->
               <<"t","e","c","h"," ","a","n","d"," ","g","a","d","g","e","t","s"," ">> \o f.style_practical \o <<" ">> \o tail
          [] b = <<"O","u","t","d","o","o","r","s">> ->
               f.palette \o <<" ","o","u","t","d","o","o","r"," ","g","e","a","r"," ","a","n","d"," ","a","p","p","a","r","e","l"," ">> \o tail
          [] b = <<"H","o","m","e">> ->
               f.palette \o <<" ","h","o","m","e"," ","i","t","e","m","s"," ">> \o f.style_practical \o <<" ">> \o tail
          [] b = <<"E","n","t","e","r","t","a","i","n","m","e","n","t">> ->
               f.styles \o <<" ">> \o f.palette \o <<" ","e","n","t","e","r","t","a","i","n","m","e","n","t"," ","a","n","d"," ","e","x","p","e","r","i","e","n","c","e","s"," ">>
                   \o tail

\* QueryInterpreter._compose_queries_multi: the (bucket, query) pairs
_compose_queries_multi(tokens, categories, recipient, styles, palettes, cohort, budget_aud) ==
    LET hi == IF budget_aud = None THEN 0 ELSE budget_aud[2]
        sp == _styles_phrase(styles)
        cohort_twist == Strip(DictGet(COHORT_PHRASE, cohort, <<>>))
        fields ==
            [styles |-> IF sp.style_str = <<>> THEN <<"c","a","s","u","a","l">> ELSE sp.style_str,
             palette |-> _palette_phrase(palettes),
             recipient_phrase |-> _recipient_phrase(recipient),
             cohort_twist |-> IF cohort_twist = <<>> THEN <<>> ELSE <<" ">> \o cohort_twist,
             style_practical |-> IF sp.practical = <<>>
                                 THEN <<"t","h","a","t"," ","a","r","e"," ","p","l","a","i","n"," ","a","n","d"," ","p","r","a","c","t","i","c","a","l">>
                                 ELSE sp.practical,
             themes |-> _themes_from_tokens(tokens),
             hi |-> IF hi # 0 THEN <<"$">> \o IntStr(hi) ELSE <<"$","1","0","0">>]
        buckets == ChooseBuckets(tokens, categories, recipient)
    IN  [k \in DOMAIN buckets |->
            <<buckets[k], Join(<<" ">>, Split(BUCKET_TEMPLATES(buckets[k], fields)))>>]

\* the cohort fallback loop of interpret
RECURSIVE CohortFromTokens(_)
CohortFromTokens(toks) ==
    IF toks = <<>> THEN None
    ELSE IF Head(toks) \in DOMAIN TOKEN_TO_COHORT THEN TOKEN_TO_COHORT[Head(toks)]
    ELSE CohortFromTokens(Tail(toks))

\* QueryInterpreter.interpret. demographics stands for what
\* infer_demographics_from_photos returns for the photo ids, and signals for
\* what _infer_style_palette_cohort returns for them. The record holds the
\* entries of the returned dict that the composed queries depend on.
interpret(tokens, categories, demographics, signals, budget_aud, recipient_hint) ==
    LET toks == _normalise(tokens)
        expanded == _expand_categories(toks, categories)
        demo_categories == demographics.categories
        withDemo ==
            IF demo_categories # <<>>
            THEN SortedStrs(Range(expanded) \cup {c \in Range(demo_categories) : c # <<>>})
            ELSE expanded
        chosen == IF ~Falsy(recipient_hint) THEN recipient_hint
                  ELSE IF ~Falsy(demographics.recipient) THEN demographics.recipient
                  ELSE <<"m","e">>
        recipient == IF chosen = <<"m","e">> /\ AnyIn(toks, SAFE_RECIPIENT_TOKENS)
                     THEN <<"c","o","u","p","l","e">> ELSE chosen
        withCouple ==
            IF recipient = <<"c","o","u","p","l","e">>
            THEN SortedStrs(Range(withDemo) \cup {<<"O","c","c","a","s","i","o","n">>, <<"J","e","w","e","l","l","e","r","y">>, <<"H","o","m","e">>})
            ELSE withDemo
        cats == IF ~Falsy(demographics.occasion) /\ <<"O","c","c","a","s","i","o","n">> \notin Range(withCouple)
                THEN SortedStrs(Range(withCouple) \cup {<<"O","c","c","a","s","i","o","n">>})
                ELSE withCouple
        cohort == IF ~Falsy(signals.cohort) THEN signals.cohort ELSE CohortFromTokens(toks)
    IN  [tokens |-> toks,
         categories |-> cats,
         styles |-> signals.styles,
         palettes |-> signals.palettes,
         cohort |-> cohort,
         queries_multi |->
             _compose_queries_multi(toks, cats, recipient, signals.styles,
                                    signals.palettes, cohort, budget_aud),
         recipient |-> recipient]

---------------------------------------------------------------------------
(* The calls the interpreter is exercised on                               *)

\* most tokens in a call of interpret
MaxTokens == 2

TokenPool == {<<"r","e","t","r","o">>, <<"G","i","r","l">>, <<"r","i","n","g">>, <<"T","e","c","h"," ">>}

TokenLists == SeqsUpTo(TokenPool, MaxTokens)

CategoryLists == {<<>>, <<<<"E","n","t","e","r","t","a","i","n","m","e","n","t">>>>}

\* recipient_hint: the documented values, in any case, and None
RecipientHints == {None, <<"m","e">>, <<"m","a","n">>, <<"t","e","e","n">>, <<"c","o","u","p","l","e">>, <<"F","a","m","i","l","y">>}

\* results of infer_demographics_from_photos: nothing inferred, or a
\* recipient of _normalise_recipient with an occasion and categories
Demographics ==
    {[recipient |-> None, occasion |-> None, categories |-> <<>>],
     [recipient |-> <<"w","o","m","a","n">>, occasion |-> <<"A","n","n","i","v","e","r","s","a","r","y">>,
      categories |-> <<<<"O","u","t","d","o","o","r","s">>>>],
     [recipient |-> <<"f","r","i","e","n","d","s">>, occasion |-> None, categories |-> <<>>]}

\* results of _infer_style_palette_cohort: lower-cased style and palette
\* values of the photo metadata, and its cohort
Signals ==
    {[styles |-> <<>>, palettes |-> <<>>, cohort |-> None],
     [styles |-> <<<<"m","i","n","i","m","a","l","i","s","t">>, <<"9","0","s">>>>, palettes |-> <<<<"b","l","a","c","k">>, <<"p","i","n","k">>>>,
      cohort |-> <<"G","e","n"," ","Z">>],
     [styles |-> <<<<"g","i","r","l">>>>, palettes |-> <<<<"b","l","u","e">>>>, cohort |-> None]}

QIBudgets == {None, <<25, 60>>, <<10, 0>>}

QIInit ==
    /\ qi_call \in [tokens : TokenLists, categories : CategoryLists,
                    demographics : Demographics, signals : Signals,
                    budget_aud : QIBudgets, recipient_hint : RecipientHints]
    /\ qi_result = NoResult

QIIdle == qi_call = NoResult /\ qi_result = NoResult

\* QueryInterpreter.interpret
Interpret ==
    /\ ~qi_result.called
    /\ qi_result' = [called |-> TRUE]
                        @@ interpret(qi_call.tokens, qi_call.categories,
                                     qi_call.demographics, qi_call.signals,
                                     qi_call.budget_aud, qi_call.recipient_hint)
    /\ UNCHANGED qi_call

---------------------------------------------------------------------------
(* The image-choice tree (src/streamlit_app.py)                            *)
(*                                                                         *)
(* A tree is a leaf (an item id, an int in the code), a dict with the     *)
(* keys left, right and pair_idx, or None for an empty pool. Embeddings    *)
(* are rows of small integers indexed by item id from 0, and cosines are   *)
(* compared exactly; the rows used have integer norms, for which the       *)
(* floating-point comparison of the code gives the same answer.            *)

\* a leaf: the id itself in the code
Leaf(id) == [leaf |-> id]

\* the tree of an empty pool: None
NoTree == [none |-> TRUE]

\* isinstance(node, dict)
IsDict(node) == "left" \in DOMAIN node

\* seed=None
NoSeed == -1

Dot(a, b) == a[1] * b[1] + a[2] * b[2]

Abs(x) == IF x < 0 THEN -x ELSE x

\* cosine(v, a) > cosine(v, b): a cosine is 0.0 when a norm is 0, else
\* the dot product over the product of the norms
CosineGreater(v, a, b) ==
    LET p == IF Dot(v, v) = 0 \/ Dot(a, a) = 0 THEN 0 ELSE Dot(v, a)
        q == IF Dot(v, v) = 0 \/ Dot(b, b) = 0 THEN 0 ELSE Dot(v, b)
        A == IF Dot(a, a) = 0 THEN 1 ELSE Dot(a, a)
        B == IF Dot(b, b) = 0 THEN 1 ELSE Dot(b, b)
    IN  IF p >= 0 /\ q < 0 THEN TRUE
        ELSE IF p < 0 /\ q >= 0 THEN FALSE
        ELSE IF p >= 0 THEN p * p * B > q * q * A
        ELSE p * p * B < q * q * A

\* random.Random(seed).shuffle(order): the positions (from 1) the shuffled
\* list takes its elements from, for lists of 3 to 7 elements (rows) and
\* the seeds 0 to 4 (columns)
ShufflePositions ==
    <<<<<<1,3,2>>, <<2,3,1>>, <<2,3,1>>, <<2,3,1>>, <<3,2,1>>>>,
      <<<<3,1,2,4>>, <<4,1,3,2>>, <<2,3,4,1>>, <<4,1,3,2>>, <<3,1,4,2>>>>,
      <<<<3,2,1,5,4>>, <<3,4,5,1,2>>, <<3,2,4,5,1>>, <<1,3,4,5,2>>, <<4,5,1,3,2>>>>,
      <<<<5,3,2,1,6,4>>, <<3,4,6,1,5,2>>, <<3,4,2,5,6,1>>, <<1,3,4,6,5,2>>,
        <<4,6,5,1,3,2>>>>,
      <<<<5,3,2,1,6,4,7>>, <<4,7,6,3,1,5,2>>, <<3,4,2,5,6,1,7>>, <<1,3,4,7,6,5,2>>,
        <<6,5,7,4,1,3,2>>>>>>

\* order = list(leaf_ids), shuffled if a seed is given
Shuffled(leaf_ids, seed) ==
    IF seed = NoSeed THEN leaf_ids
    ELSE LET from == ShufflePositions[Len(leaf_ids) - 2][seed + 1]
         IN  [k \in DOMAIN leaf_ids |-> leaf_ids[from[k]]]

\* the pivot pairs (i, j) in the order the two loops visit them; j <= i is
\* skipped
PivotPairs(order) ==
    LET n == Len(order)
        all == [k \in 1..(n * n) |->
                   <<order[((k - 1) \div n) + 1], order[((k - 1) % n) + 1]>>]
        kept(p) == p[2] > p[1]
    IN  SelectSeq(all, kept)

\* the inner loop over leaf_ids: left takes the items closer to i than to j
SplitBy(leaf_ids, embeddings, i, j) ==
    LET toLeft(lid) == CosineGreater(embeddings[lid], embeddings[i], embeddings[j])
        toRight(lid) == ~toLeft(lid)
    IN  [left |-> SelectSeq(leaf_ids, toLeft), right |-> SelectSeq(leaf_ids, toRight)]

\* best_pair is None
NoPair == [none |-> TRUE]

\* the two pivot loops: a pair replaces the best one when its balance is
\* strictly smaller, and a balance of 0 ends both loops
RECURSIVE ScanPairs(_, _, _, _)
ScanPairs(pairs, best, leaf_ids, embeddings) ==
    IF pairs = <<>> THEN best
    ELSE LET i == Head(pairs)[1]
             j == Head(pairs)[2]
             s == SplitBy(leaf_ids, embeddings, i, j)
             balance == Abs(Len(s.left) - Len(s.right))
             found == [i |-> i, j |-> j, left |-> s.left, right |-> s.right,
                       balance |-> balance]
         IN  IF best = NoPair \/ balance < best.balance
             THEN IF balance = 0 THEN found
                  ELSE ScanPairs(Tail(pairs), found, leaf_ids, embeddings)
             ELSE ScanPairs(Tail(pairs), best, leaf_ids, embeddings)

\* seq[first-1::2] of Python, first counted from 1
EveryOther_gap(seq, first) ==
    LET start == IF first = 1 THEN 1 ELSE first + 1
        count == IF start > Len(seq) THEN 0 ELSE (Len(seq) - start) \div 2 + 1
    IN  [k \in 1..count |-> seq[start + 2 * (k - 1)]]

\* seq[first-1::2] of Python, first counted from 1
EveryOther(seq, first) ==
    LET count == IF first > Len(seq) THEN 0 ELSE (Len(seq) - first) \div 2 + 1
    IN  [k \in 1..count |-> seq[first + 2 * (k - 1)]]

\* build_greedy_tree
RECURSIVE build_greedy_tree(_, _, _)
build_greedy_tree(leaf_ids, embeddings, seed) ==
    LET n == Len(leaf_ids)
    IN  IF n = 0 THEN NoTree
        ELSE IF n = 1 THEN Leaf(leaf_ids[1])
        ELSE IF n = 2
             THEN [left |-> Leaf(leaf_ids[1]), right |-> Leaf(leaf_ids[2]),
                   pair_idx |-> <<leaf_ids[1], leaf_ids[2]>>]
        ELSE LET best == ScanPairs(PivotPairs(Shuffled(leaf_ids, seed)), NoPair,
                                   leaf_ids, embeddings)
                 mid_left == EveryOther(leaf_ids, 1)
                 mid_right == EveryOther(leaf_ids, 2)
                 degenerate ==
                     \/ best = NoPair
                     \/ Len(best.left) = 0 \/ Len(best.right) = 0
                     \/ Len(best.left) = n \/ Len(best.right) = n
             IN  IF degenerate
                 THEN [left |-> build_greedy_tree(mid_left, embeddings, seed),
                       right |-> build_greedy_tree(mid_right, embeddings, seed),
                       pair_idx |-> <<mid_left[1], mid_right[1]>>]
                 ELSE [left |-> build_greedy_tree(best.left, embeddings, seed),
                       right |-> build_greedy_tree(best.right, embeddings, seed),
                       pair_idx |-> <<best.i, best.j>>]

\* what walk_tree raises when it subscripts a leaf
Raised == [raised |-> TRUE]

\* walk_tree, were the last bit of the path not followed
walk_tree_late(tree, bits) ==
    LET RECURSIVE go(_, _)
        go(node, rest) ==
            IF Len(rest) <= 1 THEN node
            ELSE IF ~IsDict(node) THEN Raised
            ELSE go(IF Head(rest) = 0 THEN node.left ELSE node.right, Tail(rest))
    IN  go(tree, bits)

\* walk_tree
RECURSIVE walk_tree(_, _)
walk_tree(tree, bits) ==
    IF bits = <<>> THEN tree
    ELSE IF ~IsDict(tree) THEN Raised
    ELSE walk_tree(IF Head(bits) = 0 THEN tree.left ELSE tree.right, Tail(bits))

\* the leaves of a tree, left to right
RECURSIVE LeavesOf(_)
LeavesOf(tree) ==
    IF tree = NoTree THEN <<>>
    ELSE IF IsDict(tree) THEN LeavesOf(tree.left) \o LeavesOf(tree.right)
    ELSE <<tree.leaf>>

\* the nodes of a tree: the tree and all its subtrees
RECURSIVE NodesOf(_)
NodesOf(tree) ==
    IF IsDict(tree) THEN {tree} \cup NodesOf(tree.left) \cup NodesOf(tree.right)
    ELSE {tree}

---------------------------------------------------------------------------
(* The pools the tree is built from                                        *)

\* most items in a pool
MaxPool == 5

\* largest reshuffle seed
MaxSeed == 2

\* embedding rows: the zero row and rows of integer norm, some parallel,
\* one opposite to others
Rows == {<<0, 0>>, <<1, 0>>, <<2, 0>>, <<0, 1>>, <<3, 4>>, <<4, 3>>, <<-1, 0>>}

\* embeddings of n items with distinct rows, indexed from 0
DistinctEmbeddings(n) ==
    {e \in [0..(n - 1) -> Rows] : \A a, b \in 0..(n - 1) : a # b => e[a] # e[b]}

\* leaf_ids: the n ids in rising or in falling order
IdOrders(n) == {[k \in 1..n |-> k - 1], [k \in 1..n |-> n - k]}

Seeds == {NoSeed} \cup 0..MaxSeed

BTInit ==
    /\ \E n \in 0..MaxPool :
          bt_call \in [leaf_ids : IdOrders(n), embeddings : DistinctEmbeddings(n),
                       seed : Seeds]
    /\ bt_result = NoResult

BTIdle == bt_call = NoResult /\ bt_result = NoResult

\* build_greedy_tree
Build ==
    /\ ~bt_result.called
    /\ bt_result' = [called |-> TRUE,
                     tree |-> build_greedy_tree(bt_call.leaf_ids, bt_call.embeddings,
                                                bt_call.seed)]
    /\ UNCHANGED bt_call

---------------------------------------------------------------------------
(* The image-choice session (src/streamlit_app.py)                         *)
(*                                                                         *)
(* One action is one run of the script up to the redisplay that follows   *)
(* st.rerun(): the refresh test, the pending selection, and the walk that  *)
(* finds the node to show.                                                 *)

\* the decks a run of the script can find: leaf ids and the embeddings of
\* the metadata rows; never empty, as the script stops on an empty deck
SessionPools ==
    {[leaf_ids |-> <<0>>, embeddings |-> <<<<1, 0>>>>],
     [leaf_ids |-> <<1, 0>>, embeddings |-> <<<<1, 0>>, <<0, 1>>>>],
     [leaf_ids |-> <<0, 1, 2>>, embeddings |-> <<<<1, 0>>, <<0, 1>>, <<3, 4>>>>],
     [leaf_ids |-> <<0, 1, 2>>, embeddings |-> <<<<0, 0>>, <<1, 0>>, <<2, 0>>>>],
     [leaf_ids |-> <<2, 0, 3, 1>>,
      embeddings |-> <<<<1, 0>>, <<0, 1>>, <<3, 4>>, <<4, 3>>>>],
     [leaf_ids |-> <<3, 2, 1, 0>>,
      embeddings |-> <<<<0, 0>>, <<2, 0>>, <<0, 1>>, <<4, 3>>>>],
     [leaf_ids |-> <<0, 1, 2, 3, 4>>,
      embeddings |-> <<<<1, 0>>, <<2, 0>>, <<0, 1>>, <<3, 4>>, <<4, 3>>>>],
     [leaf_ids |-> <<4, 2, 0, 1, 3>>,
      embeddings |-> <<<<0, 1>>, <<3, 4>>, <<0, 0>>, <<4, 3>>, <<1, 0>>>>]}

\* a list of rows as the array the tree builder indexes from 0
AsArray(rows) == [i \in 0..(Len(rows) - 1) |-> rows[i + 1]]

\* the try/except around walk_tree: on an exception the stored path is
\* emptied and the root is shown
ShowNode_no_reset(tree, bits) ==
    LET node == walk_tree(tree, bits)
    IN  [bits |-> bits, node |-> node, caught |-> node = Raised]

\* the try/except around walk_tree: on an exception the stored path is
\* emptied and the root is shown
ShowNode(tree, bits) ==
    LET node == walk_tree(tree, bits)
    IN  IF node = Raised
        THEN [bits |-> <<>>, node |-> walk_tree(tree, <<>>), caught |-> TRUE]
        ELSE [bits |-> bits, node |-> node, caught |-> FALSE]

\* session_state before the first run: no tree, no path; img_seed is read
\* with the default 0 wherever it is missing
ISInit ==
    /\ img_leaf_ids = <<>>
    /\ img_embeddings = <<>>
    /\ img_seed = 0
    /\ img_tree = NoTree
    /\ img_path_bits = <<>>
    /\ node_img = NoTree
    /\ img_caught = FALSE

ISIdle == ISInit

\* a run of the script, were the stored path emptied by "neither" as it is
\* by a refresh
RunScript_neither_resets(pool, choice) ==
    LET needs_refresh == \/ img_leaf_ids # pool.leaf_ids
                         \/ img_embeddings # pool.embeddings
        seed == IF choice = "neither" THEN img_seed + 1 ELSE img_seed
        bits == (IF needs_refresh \/ choice = "neither" THEN <<>> ELSE img_path_bits)
                    \o (IF choice = "left" THEN <<0>>
                        ELSE IF choice = "right" THEN <<1>>
                        ELSE <<>>)
    IN  \E tree \in {IF needs_refresh \/ choice = "neither"
                     THEN build_greedy_tree(pool.leaf_ids, AsArray(pool.embeddings), seed)
                     ELSE img_tree} :
        \E shown \in {ShowNode(tree, bits)} :
            /\ img_leaf_ids' = pool.leaf_ids
            /\ img_embeddings' = pool.embeddings
            /\ img_seed' = seed
            /\ img_tree' = tree
            /\ img_path_bits' = shown.bits
            /\ node_img' = shown.node
            /\ img_caught' = shown.caught
            /\ UNCHANGED <<qb_vars, sq_vars, qi_vars, bt_vars, rr_vars, fb_vars, rg_vars, tv_vars, tt_vars, mm_vars, cf_vars, ql_vars, ag_vars>>

\* a run of the script on the deck `pool` with the pending selection
\* `choice` ("none", "left", "right" or "neither"), and the rerun after it.
\* A refresh builds the tree with the stored seed and "neither" builds it
\* again with the next seed; the tree that stays is the last one built.
RunScript(pool, choice) ==
    LET needs_refresh == \/ img_leaf_ids # pool.leaf_ids
                         \/ img_embeddings # pool.embeddings
        seed == IF choice = "neither" THEN img_seed + 1 ELSE img_seed
        bits == (IF needs_refresh THEN <<>> ELSE img_path_bits)
                    \o (IF choice = "left" THEN <<0>>
                        ELSE IF choice = "right" THEN <<1>>
                        ELSE <<>>)
    IN  \E tree \in {IF needs_refresh \/ choice = "neither"
                     THEN build_greedy_tree(pool.leaf_ids, AsArray(pool.embeddings), seed)
                     ELSE img_tree} :
        \E shown \in {ShowNode(tree, bits)} :
            /\ img_leaf_ids' = pool.leaf_ids
            /\ img_embeddings' = pool.embeddings
            /\ img_seed' = seed
            /\ img_tree' = tree
            /\ img_path_bits' = shown.bits
            /\ node_img' = shown.node
            /\ img_caught' = shown.caught
            /\ UNCHANGED <<qb_vars, sq_vars, qi_vars, bt_vars, rr_vars, fb_vars, rg_vars, tv_vars, tt_vars, mm_vars, cf_vars, ql_vars, ag_vars>>

\* the deck or the metadata changed, or the page is opened
Refresh ==
    \E pool \in SessionPools :
        /\ img_leaf_ids # pool.leaf_ids \/ img_embeddings # pool.embeddings
        /\ RunScript(pool, "none")

\* the deck the last run stored
CurrentPool == [leaf_ids |-> img_leaf_ids, embeddings |-> img_embeddings]

\* img_select=left, or a click on the left image
ChooseLeft == img_tree # NoTree /\ RunScript(CurrentPool, "left")

\* img_select=right, or a click on the right image
ChooseRight == img_tree # NoTree /\ RunScript(CurrentPool, "right")

\* img_select=neither, or the "Neither match" button
Neither ==
    /\ img_tree # NoTree
    /\ img_seed < MaxSeed
    /\ RunScript(CurrentPool, "neither")

\* the "Start over" button under a leaf
StartOver ==
    /\ img_tree # NoTree
    /\ ~IsDict(node_img)
    /\ img_path_bits # <<>>
    /\ \E shown \in {ShowNode(img_tree, <<>>)} :
           /\ img_path_bits' = shown.bits
           /\ node_img' = shown.node
           /\ img_caught' = shown.caught
    /\ UNCHANGED <<img_leaf_ids, img_embeddings, img_seed, img_tree>>
    /\ UNCHANGED <<qb_vars, sq_vars, qi_vars, bt_vars, rr_vars, fb_vars, rg_vars, tv_vars, tt_vars, mm_vars, cf_vars, ql_vars, ag_vars>>

---------------------------------------------------------------------------
(* heuristic_rerank (src/src/rerank_llm.py)                                *)
(*                                                                         *)
(* A score is a Python float.  It is modelled by its decimal value in      *)
(* sixtieths together with the rounding error that the double arithmetic   *)
(* leaves on it, in units of 2^-58 / 15: the float is exactly              *)
(* sixtieths / 60 + err * 2^-58 / 15, and two scores compare in the model  *)
(* as the two floats compare in Python.                                    *)

Float(sixtieths, err) == [sixtieths |-> sixtieths, err |-> err]

\* a < b on floats
FloatLess(a, b) ==
    \/ a.sixtieths < b.sixtieths
    \/ a.sixtieths = b.sixtieths /\ a.err < b.err

\* max(a, b) and min(a, b) of Python: the first argument unless the second
\* is strictly greater (smaller)
FloatMax(a, b) == IF FloatLess(a, b) THEN b ELSE a

FloatMin(a, b) == IF FloatLess(b, a) THEN b ELSE a

\* a - b as a real number
FloatDiff(a, b) == Float(a.sixtieths - b.sixtieths, a.err - b.err)

\* The rounding error of base - budget_penalty - age_penalty as IEEE-754
\* doubles compute it, by the decimal value of base = 0.45 + 0.4 *
\* overlap_ratio (in sixtieths; the ratios with denominator 1 to 4) and by
\* the number of penalties of 0.2 taken off: none, one, two.
DoubleError ==
    (27 :> <<48, 0, -48>>) @@ (33 :> <<192, 144, 96>>) @@ (35 :> <<160, 112, 64>>)
        @@ (39 :> <<96, 48, 0>>) @@ (43 :> <<32, -256, -304>>)
        @@ (45 :> <<0, 192, 144>>) @@ (51 :> <<384, 576, 528>>)

\* {t.lower() for t in xs}
LowerSet(xs) == {Lower(x) : x \in Range(xs)}

\* len(tag_overlap) / max(1, len(taste_set)) if taste_set else 0.5, as the
\* fraction <<numerator, denominator>>
overlap_ratio(tag_overlap, taste_set) ==
    IF taste_set # {}
    THEN <<Cardinality(tag_overlap),
           IF Cardinality(taste_set) > 1 THEN Cardinality(taste_set) ELSE 1>>
    ELSE <<1, 2>>

\* 0.45 + 0.4 * overlap_ratio, its decimal value in sixtieths
base(ratio) == 27 + (24 * ratio[1]) \div ratio[2]

out_of_budget(price, budget) == price < budget[1] \/ price > budget[2]

\* 0.2 if out_of_budget else 0.0, in sixtieths
budget_penalty(oob) == IF oob THEN 12 ELSE 0

\* age_fit, were a gift that names no ages taken not to fit an age prior
age_fit_strict(age_set, gift_age_set) ==
    IF age_set # {}
    THEN gift_age_set \cap age_set # {}
    ELSE TRUE

\* age_fit: True unless there is an age prior and the gift names ages none
\* of which is in it
age_fit(age_set, gift_age_set) ==
    IF age_set # {}
    THEN gift_age_set = {} \/ gift_age_set \cap age_set # {}
    ELSE TRUE

\* 0.2 if the age does not fit, in sixtieths
age_penalty(fit) == IF fit THEN 0 ELSE 12

\* base - budget_penalty - age_penalty
Penalised(b, bp, ap) == Float(b - bp - ap, DoubleError[b][(bp + ap) \div 12 + 1])

\* max(0.0, min(1.0, x)) with a floor of 0.25
Clamp_floor(x) == FloatMax(Float(15, 0), FloatMin(Float(60, 0), x))

\* max(0.0, min(1.0, x))
Clamp(x) == FloatMax(Float(0, 0), FloatMin(Float(60, 0), x))

\* the orders in which list(a_set) can enumerate a set
Orders(S) == {q \in [1..Cardinality(S) -> S] : Range(q) = S}

\* the reason of one result; listed is list(tag_overlap)
reason_of(listed, oob, fit, age_set) ==
    LET first == IF listed # <<>>
                 THEN <<"M","a","t","c","h","e","s"," ">> \o Join(<<","," ">>, PyPrefix(listed, 2))
                 ELSE <<"B","r","o","a","d"," ","a","p","p","e","a","l">>
        second == IF ~oob THEN <<"i","n"," ","b","u","d","g","e","t">> ELSE <<"o","v","e","r"," ","b","u","d","g","e","t">>
        reason_parts == <<first, second>>
                            \o (IF ~fit /\ age_set # {} THEN <<<<"a","g","e"," ","m","i","s","m","a","t","c","h">>>> ELSE <<>>)
        reason == Join(<<";"," ">>, reason_parts)
        reason_words == Split(reason)
    IN  IF Len(reason_words) > 18
        THEN Join(<<" ">>, PyPrefix(reason_words, 18))
        ELSE reason

\* the body of the loop over gifts: the RerankResult of one gift, one for
\* each order in which list(tag_overlap) can enumerate the overlap
RerankResult(gift, taste_set, age_set, budget) ==
    LET tag_overlap == taste_set \cap LowerSet(gift.tags)
        oob == out_of_budget(gift.price, budget)
        fit == age_fit(age_set, LowerSet(gift.age_fit))
        score == Clamp(Penalised(base(overlap_ratio(tag_overlap, taste_set)),
                                 budget_penalty(oob), age_penalty(fit)))
        passed == ~oob /\ fit /\ ~FloatLess(score, Float(27, 48))
    IN  {[sku |-> gift.sku, score |-> score, age_fit |-> fit, passed |-> passed,
          reason |-> reason_of(listed, oob, fit, age_set)] :
            listed \in Orders(tag_overlap)}

\* the lists of results the loop over gifts can build
RECURSIVE Scored(_, _, _, _)
Scored(gifts, taste_set, age_set, budget) ==
    IF gifts = <<>> THEN {<<>>}
    ELSE {<<r>> \o rest : r \in RerankResult(Head(gifts), taste_set, age_set, budget),
                          rest \in Scored(Tail(gifts), taste_set, age_set, budget)}

\* results.sort(key=lambda item: item.score, reverse=True): by falling
\* score, results of equal score in the order they had
SortedByScore(results) ==
    LET ahead(i) == {j \in DOMAIN results :
                        \/ FloatLess(results[i].score, results[j].score)
                        \/ results[j].score = results[i].score /\ j < i}
    IN  [k \in DOMAIN results |->
            results[CHOOSE i \in DOMAIN results : Cardinality(ahead(i)) = k - 1]]

\* passed_only without the fallback to the top of the list
passed_only_unfilled(results, keep_top) ==
    LET passed(r) == r.passed
    IN  SelectSeq(results, passed)

\* passed_only: the results that passed or, when none did, results[:keep_top]
passed_only(results, keep_top) ==
    LET passed(r) == r.passed
        kept == SelectSeq(results, passed)
    IN  IF kept = <<>> THEN PyPrefix(results, keep_top) ELSE kept

\* heuristic_rerank: what it can return, with the sorted list of all results
heuristic_rerank(gifts, taste_top_tags, budget, age_soft_prior, keep_top) ==
    {[results |-> results,
      returned |-> PyPrefix(passed_only(results, keep_top), keep_top)] :
        results \in {SortedByScore(scored) :
                        scored \in Scored(gifts, LowerSet(taste_top_tags),
                                          LowerSet(age_soft_prior), budget)}}

---------------------------------------------------------------------------
(* The calls of heuristic_rerank the model draws                           *)

MaxGifts == 3

MaxTaste == 2

MaxKeep == 2

\* Gift: sku, price, tags and meta.get("age_fit", []); the title, the
\* description and the vector play no part in heuristic_rerank.  Two pairs
\* of gifts that differ in sku and price only.
GiftPool ==
    {[sku |-> <<"m","i","d">>, price |-> 80, tags |-> <<<<"c","o","z","y">>>>, age_fit |-> <<>>],
     [sku |-> <<"o","u","t">>, price |-> 140, tags |-> <<<<"c","o","z","y">>>>, age_fit |-> <<>>],
     [sku |-> <<"s","k","u","2">>, price |-> 140, tags |-> <<<<"N","e","o","n">>, <<"r","e","t","r","o">>>>,
      age_fit |-> <<<<"T","e","e","n">>>>],
     [sku |-> <<"s","k","u","3">>, price |-> 40, tags |-> <<<<"N","e","o","n">>, <<"r","e","t","r","o">>>>,
      age_fit |-> <<<<"T","e","e","n">>>>]}

\* lists of distinct gifts
GiftLists == {q \in SeqsUpTo(GiftPool, MaxGifts) : Cardinality(Range(q)) = Len(q)}

TasteLists == SeqsUpTo({<<"c","o","z","y">>, <<"R","e","t","r","o">>, <<"n","e","o","n">>}, MaxTaste)

\* a budget with the price 80 on its upper end, and one with min above max
RRBudgets == {<<30, 80>>, <<100, 60>>}

AgePriors == {<<>>, <<<<"a","d","u","l","t">>>>, <<<<"A","d","u","l","t">>, <<"t","e","e","n">>>>}

KeepTops == (-1)..MaxKeep

RRInit ==
    /\ rr_call \in [gifts : GiftLists, taste_top_tags : TasteLists, budget : RRBudgets,
                    age_soft_prior : AgePriors, keep_top : KeepTops]
    /\ rr_result = NoResult

RRIdle == rr_call = NoResult /\ rr_result = NoResult

\* heuristic_rerank
Rerank ==
    /\ ~rr_result.called
    /\ \E out \in heuristic_rerank(rr_call.gifts, rr_call.taste_top_tags, rr_call.budget,
                                   rr_call.age_soft_prior, rr_call.keep_top) :
          rr_result' = [called |-> TRUE, results |-> out.results,
                        returned |-> out.returned]
    /\ UNCHANGED rr_call

---------------------------------------------------------------------------
(* load_gifts_jsonl and filter_budget_and_age (src/src/rank_embed.py)      *)
(*                                                                         *)
(* A catalogue record is the parsed JSON object of one line, a function    *)
(* from its keys to their values; a Gift is a record of the dataclass's    *)
(* fields.  A price is a whole number of dollars.                          *)

\* None where the code expects a number: a price, a bound of the budget
NoNumber == -1

\* None where the code expects a list of strings
NoList == <<None>>

\* None where the code expects a numpy array
NoVector == [none |-> TRUE]

\* budget=None
NoBudget == <<NoNumber>>

\* Gift(sku, title, price, tags, meta, short_desc, vector)
Gift(sku, title, price, tags, meta, short_desc, vector) ==
    [sku |-> sku, title |-> title, price |-> price, tags |-> tags, meta |-> meta,
     short_desc |-> short_desc, vector |-> vector]

\* the Gift load_gifts_jsonl makes of one record: float(record.get("price",
\* 0.0)), and the defaults of the other keys
LoadedGift(record) ==
    Gift(record["sku"], DictGet(record, "title", <<>>), DictGet(record, "price", 0),
         DictGet(record, "tags", <<>>), DictGet(record, "meta", <<>>),
         DictGet(record, "short_desc", <<>>), NoVector)

\* load_gifts_jsonl: one Gift per record, in the order of the lines
load_gifts_jsonl(records) == [i \in DOMAIN records |-> LoadedGift(records[i])]

\* {str(a).lower() for a in gift.meta.get("age_fit", [])}
gift_ages(gift) == LowerSet(DictGet(gift.meta, "age_fit", <<>>))

\* the body of the loop of filter_budget_and_age for one gift: "raise" when
\* a comparison raises, "continue" when the gift is dropped, else "append"
FilterStep(gift, min_budget, max_budget, age_set) ==
    IF min_budget # NoNumber /\ gift.price = NoNumber THEN "raise"
    ELSE IF min_budget # NoNumber /\ gift.price < min_budget THEN "continue"
    ELSE IF max_budget # NoNumber /\ gift.price = NoNumber THEN "raise"
    ELSE IF max_budget # NoNumber /\ gift.price > max_budget THEN "continue"
    ELSE IF age_set # {} /\ gift_ages(gift) # {} /\ gift_ages(gift) \cap age_set = {}
         THEN "continue"
    ELSE "append"

\* filter_budget_and_age
filter_budget_and_age(gifts_with_scores, budget, age_prior) ==
    LET age_set == IF age_prior = NoList THEN {} ELSE LowerSet(age_prior)
        min_budget == IF budget = NoBudget THEN NoNumber ELSE budget[1]
        max_budget == IF budget = NoBudget THEN NoNumber ELSE budget[2]
        step(pair) == FilterStep(pair[1], min_budget, max_budget, age_set)
        kept(pair) == step(pair) = "append"
        \* the first gift on which the loop raises is reached, as no earlier
        \* step leaves the loop
    IN  IF \E i \in DOMAIN gifts_with_scores : step(gifts_with_scores[i]) = "raise"
        THEN [raised |-> TRUE, filtered |-> <<>>]
        ELSE [raised |-> FALSE, filtered |-> SelectSeq(gifts_with_scores, kept)]

---------------------------------------------------------------------------
(* The catalogue the filter runs on                                        *)

MaxRecords == 2

\* records with and without a price, with and without meta and age_fit
CatalogueRecords ==
    {("sku" :> <<"a">>) @@ ("title" :> <<"B", "u", "d", "g", "e", "t">>) @@ ("price" :> 20)
        @@ ("meta" :> ("age_fit" :> <<<<"a", "d", "u", "l", "t">>>>)),
     ("sku" :> <<"b">>) @@ ("price" :> 200) @@ ("meta" :> ("age_fit" :> <<<<"T", "e", "e", "n">>>>)),
     ("sku" :> <<"c">>) @@ ("price" :> 90),
     ("sku" :> <<"d">>) @@ ("meta" :> ("age_fit" :> <<>>)),
     ("sku" :> <<"e">>) @@ ("meta" :> ("age_fit" :> <<<<"t", "e", "e", "n">>>>)),
     ("sku" :> <<"f">>) @@ ("tags" :> <<<<"w", "a", "r", "m">>>>)}

\* lists of distinct records
RecordLists ==
    {q \in SeqsUpTo(CatalogueRecords, MaxRecords) : Cardinality(Range(q)) = Len(q)}

\* Gift(...) called on the values of a record, price=None when it has none
MadeGift(record) ==
    Gift(record["sku"], DictGet(record, "title", <<>>), DictGet(record, "price", NoNumber),
         DictGet(record, "tags", <<>>), DictGet(record, "meta", <<>>), <<>>, NoVector)

\* budgets: none, both bounds, one bound
FBBudgets == {NoBudget, <<30, 150>>, <<NoNumber, 150>>, <<30, NoNumber>>}

FBAgePriors == {NoList, <<>>, <<<<"A", "d", "u", "l", "t">>>>}

FBInit ==
    /\ fb_call \in [records : RecordLists, budget : FBBudgets, age_prior : FBAgePriors]
    /\ fb_gifts = NoResult
    /\ fb_result = NoResult

FBIdle ==
    /\ fb_call = NoResult
    /\ fb_gifts = NoResult
    /\ fb_result = NoResult

\* load_gifts_jsonl on the catalogue file
LoadGifts ==
    /\ ~fb_gifts.called
    /\ fb_gifts' = [called |-> TRUE, gifts |-> load_gifts_jsonl(fb_call.records)]
    /\ UNCHANGED <<fb_call, fb_result>>
    /\ UNCHANGED <<qb_vars, sq_vars, qi_vars, bt_vars, is_vars, rr_vars, rg_vars, tv_vars, tt_vars, mm_vars, cf_vars, ql_vars, ag_vars>>

\* the gifts made by calling Gift(...) directly, as the tests do
MakeGifts ==
    /\ ~fb_gifts.called
    /\ fb_gifts' = [called |-> TRUE,
                    gifts |-> [i \in DOMAIN fb_call.records |-> MadeGift(fb_call.records[i])]]
    /\ UNCHANGED <<fb_call, fb_result>>
    /\ UNCHANGED <<qb_vars, sq_vars, qi_vars, bt_vars, is_vars, rr_vars, rg_vars, tv_vars, tt_vars, mm_vars, cf_vars, ql_vars, ag_vars>>

\* filter_budget_and_age on the gifts, each paired with a score: its place
FilterGifts ==
    /\ fb_gifts.called
    /\ ~fb_result.called
    /\ \E out \in {filter_budget_and_age([i \in DOMAIN fb_gifts.gifts |-> <<fb_gifts.gifts[i], i>>],
                                          fb_call.budget, fb_call.age_prior)} :
          fb_result' = [called |-> TRUE, raised |-> out.raised, filtered |-> out.filtered]
    /\ UNCHANGED <<fb_call, fb_gifts>>
    /\ UNCHANGED <<qb_vars, sq_vars, qi_vars, bt_vars, is_vars, rr_vars, rg_vars, tv_vars, tt_vars, mm_vars, cf_vars, ql_vars, ag_vars>>

---------------------------------------------------------------------------
(* rank_gifts_by_taste (src/src/rank_embed.py)                             *)
(*                                                                         *)
(* An array is its whole-number data and the square of the number the data *)
(* are divided by: [data |-> <<1, 1>>, over2 |-> 2] is (1, 1) / sqrt(2).   *)
(* A cosine is kept exact, as the dot product of the data and the product  *)
(* of their squared norms: num / sqrt(den).  The eps of 1e-9 added to the  *)
(* denominator and the rounding of float32 are far below the gaps between  *)
(* the cosines of the modelled vectors and are the same for equal ones.    *)

\* np.array(data)
NdArray(data) == [data |-> data, over2 |-> 1]

\* x.shape[0]
Shape0(x) == Len(x.data)

RECURSIVE SumTo(_, _, _)
SumTo(a, b, n) == IF n = 0 THEN 0 ELSE a[n] * b[n] + SumTo(a, b, n - 1)

\* the dot product of the data of two arrays of one length
DataDot(a, b) == SumTo(a.data, b.data, Len(a.data))

\* _safe_norm: x when its norm is below eps, else x / n
_safe_norm(x) ==
    IF DataDot(x, x) = 0 THEN x ELSE [data |-> x.data, over2 |-> DataDot(x, x)]

\* _cosine: np.dot(a, b) / (norm(a) * norm(b) + eps), 0.0 when a norm is 0
_cosine(a, b) ==
    IF DataDot(a, a) * DataDot(b, b) = 0 THEN [num |-> 0, den |-> 1]
    ELSE [num |-> DataDot(a, b), den |-> DataDot(a, a) * DataDot(b, b)]

\* x < y for two cosines
CosineLess(x, y) ==
    IF x.num < 0 /\ y.num >= 0 THEN TRUE
    ELSE IF x.num >= 0 /\ y.num < 0 THEN FALSE
    ELSE IF x.num >= 0 THEN x.num * x.num * y.den < y.num * y.num * x.den
    ELSE x.num * x.num * y.den > y.num * y.num * x.den

\* SortedReverse with items of equal keys in the reverse of their order
SortedReverse_unstable(items, greater) ==
    LET n == Len(items)
        place(i) == 1 + Cardinality({j \in 1..n : \/ greater[j][i]
                                                  \/ j > i /\ ~greater[i][j]})
    IN  [p \in 1..n |-> items[CHOOSE i \in 1..n : place(i) = p]]

\* list.sort(key=..., reverse=True): the items in falling order of their
\* keys, items of equal keys in the order they had; greater[i][j] tells
\* whether the key of item i is above the key of item j
SortedReverse(items, greater) ==
    LET n == Len(items)
        place(i) == 1 + Cardinality({j \in 1..n : \/ greater[j][i]
                                                  \/ j < i /\ ~greater[i][j]})
    IN  [p \in 1..n |-> items[CHOOSE i \in 1..n : place(i) = p]]

\* xs[:k] of Python, for any integer k
SliceTo(xs, k) ==
    LET stop == IF k >= 0 THEN (IF k < Len(xs) THEN k ELSE Len(xs))
                ELSE (IF Len(xs) + k > 0 THEN Len(xs) + k ELSE 0)
    IN  SubSeq(xs, 1, stop)

\* the cosine path is taken: a taste vector, every gift with a vector, all
\* of one dimension, that of the taste vector
CosinePath(gifts, taste_vec) ==
    LET usable_vectors == SelectSeq([i \in DOMAIN gifts |-> gifts[i].vector],
                                    LAMBDA v : v # NoVector)
        dims == {Shape0(usable_vectors[i]) : i \in DOMAIN usable_vectors}
        same_dimension == /\ usable_vectors # <<>>
                          /\ taste_vec # NoVector
                          /\ Cardinality(dims) = 1
                          /\ Shape0(taste_vec) \in dims
    IN  taste_vec # NoVector /\ same_dimension /\ Len(usable_vectors) = Len(gifts)

\* the scores of the TF-IDF fallback come from scikit-learn's
\* TfidfVectorizer, outside this repository: any levels, one per gift
TfidfLevels == 0..1

\* rank_gifts_by_taste: the set of the lists it can return, one when the
\* cosine path is taken, one per scoring of the gifts in the fallback
rank_gifts_by_taste(gifts, taste_vec, top_k) ==
    IF gifts = <<>> THEN {[path |-> "none", ranked |-> <<>>]}
    ELSE IF CosinePath(gifts, taste_vec)
    THEN LET taste_norm == _safe_norm(taste_vec)
             results == [i \in DOMAIN gifts |->
                            <<gifts[i], _cosine(taste_norm, gifts[i].vector)>>]
             greater == [i \in DOMAIN gifts |-> [j \in DOMAIN gifts |->
                            CosineLess(results[j][2], results[i][2])]]
         IN  {[path |-> "cosine", ranked |-> SliceTo(SortedReverse(results, greater), top_k)]}
    ELSE {[path |-> "tfidf",
           ranked |-> SliceTo(SortedReverse([i \in DOMAIN gifts |-> <<gifts[i], scores[i]>>],
                                            [i \in DOMAIN gifts |-> [j \in DOMAIN gifts |->
                                                scores[i] > scores[j]]]),
                              top_k)] :
            scores \in [DOMAIN gifts -> TfidfLevels]}

---------------------------------------------------------------------------
(* The gifts that are ranked                                               *)

MaxRanked == 3

MaxTopK == 2

\* gifts with vectors of two and of three dimensions and without one
RankPool ==
    {Gift(<<"a">>, <<"W", "a", "r", "m", " ", "M", "u", "g">>, 20, <<<<"w", "a", "r", "m">>>>, <<>>, <<>>, NdArray(<<1, 0>>)),
     Gift(<<"b">>, <<"C", "o", "o", "l", " ", "L", "a", "m", "p">>, 20, <<<<"c", "o", "o", "l">>>>, <<>>, <<>>, NdArray(<<0, 1>>)),
     Gift(<<"c">>, <<"N", "e", "o", "n", " ", "S", "i", "g", "n">>, 30, <<<<"n", "e", "o", "n">>>>, <<>>, <<>>, NdArray(<<-1, 1>>)),
     Gift(<<"d">>, <<"R", "e", "t", "r", "o", " ", "M", "u", "g">>, 30, <<<<"r", "e", "t", "r", "o">>, <<"w", "a", "r", "m">>>>, <<>>, <<>>, NoVector),
     Gift(<<"e">>, <<"T", "e", "c", "h", " ", "T", "o", "y">>, 30, <<<<"t", "e", "c", "h">>>>, <<>>, <<>>, NdArray(<<1, 0, 0>>))}

\* lists of distinct gifts
RankLists ==
    {q \in SeqsUpTo(RankPool, MaxRanked) : Cardinality(Range(q)) = Len(q)}

TasteVecs ==
    {NoVector, NdArray(<<1, 0>>), NdArray(<<1, 1>>), NdArray(<<0, 0>>), NdArray(<<0, 2, 0>>)}

TopKs == (-1)..MaxTopK

RGInit ==
    /\ rg_call \in [gifts : RankLists, taste_vec : TasteVecs, top_k : TopKs]
    /\ rg_result = NoResult

RGIdle == rg_call = NoResult /\ rg_result = NoResult

\* one call of rank_gifts_by_taste
RankGifts ==
    /\ ~rg_result.called
    /\ \E out \in rank_gifts_by_taste(rg_call.gifts, rg_call.taste_vec, rg_call.top_k) :
          rg_result' = [called |-> TRUE, path |-> out.path, ranked |-> out.ranked]
    /\ UNCHANGED rg_call
    /\ UNCHANGED <<qb_vars, sq_vars, qi_vars, bt_vars, is_vars, rr_vars, fb_vars, tv_vars, tt_vars, mm_vars, cf_vars, ql_vars, ag_vars>>

---------------------------------------------------------------------------
(* build_taste_vector (src/src/taste.py)                                   *)
(*                                                                         *)
(* Weights are whole numbers of 128ths: a base weight is counted in halves *)
(* and a decay in 64ths.  The recency_tau values are those for which the   *)
(* decays np.exp gives are such numbers: 1e-07 (raised to 1e-06, and       *)
(* exp(-1e6) is 0.0), 1.4426950408889634 (1 / ln 2: the decay halves with  *)
(* each step) and 1e+17 (exp(-1e-17) is 1.0).                              *)

\* Photo(id, vector, tags)
Photo(id, vector, tags) == [id |-> id, vector |-> vector, tags |-> tags]

\* ChoiceEvent(photo_id, kind, recency_index)
ChoiceEvent(photo_id, kind, recency_index) ==
    [photo_id |-> photo_id, kind |-> kind, recency_index |-> recency_index]

\* photos_by_id.get(...) of an unknown id
NoPhoto == [none |-> TRUE]

\* CHOICE_WEIGHTS, in halves
CHOICE_WEIGHTS ==
    (<<"s", "u", "p", "e", "r", "_", "l", "i", "k", "e">> :> 3) @@ (<<"l", "i", "k", "e">> :> 2) @@ (<<"d", "i", "s", "l", "i", "k", "e">> :> -1)

\* _prepare_events: the place in the list for a missing recency_index, then
\* a stable sort by recency_index
_prepare_events(events) ==
    LET materialised == [i \in DOMAIN events |->
            ChoiceEvent(events[i].photo_id, events[i].kind,
                        IF events[i].recency_index = NoNumber THEN i - 1
                        ELSE events[i].recency_index)]
        n == Len(events)
        place(i) == 1 + Cardinality({j \in 1..n :
                        \/ materialised[j].recency_index < materialised[i].recency_index
                        \/ /\ materialised[j].recency_index = materialised[i].recency_index
                           /\ j < i})
    IN  [p \in 1..n |-> materialised[CHOOSE i \in 1..n : place(i) = p]]

\* 2 to the power n
RECURSIVE Pow2(_)
Pow2(n) == IF n = 0 THEN 1 ELSE 2 * Pow2(n - 1)

\* np.exp(-(latest - recency_index) / max(1e-6, recency_tau)), in 64ths
Decay(delta, recency_tau) ==
    IF recency_tau = <<"1", "e", "-", "0", "7">> THEN (IF delta = 0 THEN 64 ELSE 0)
    ELSE IF recency_tau = <<"1", ".", "4", "4", "2", "6", "9", "5", "0", "4", "0", "8", "8", "8", "9", "6", "3", "4">> THEN 64 \div Pow2(delta)
    ELSE 64

\* the loop passes over the event: an unknown photo, or a kind of weight 0.0
Skipped(photos_by_id, ev) ==
    \/ DictGet(photos_by_id, ev.photo_id, NoPhoto) = NoPhoto
    \/ DictGet(CHOICE_WEIGHTS, ev.kind, 0) = 0

\* weight * decay for the event at place k of prepared, in 128ths
EventWeight(prepared, k, recency_tau) ==
    LET latest == prepared[Len(prepared)].recency_index
    IN  DictGet(CHOICE_WEIGHTS, prepared[k].kind, 0)
            * Decay(latest - prepared[k].recency_index, recency_tau)

\* np.zeros(dim): the accumulator, whose data are 128ths
Zeros(dim) == [data |-> [i \in 1..dim |-> 0], over2 |-> 128 * 128]

\* acc after the first k events of prepared
RECURSIVE Accumulated(_, _, _, _, _)
Accumulated(photos_by_id, prepared, k, dim, recency_tau) ==
    IF k = 0 THEN Zeros(dim)
    ELSE LET acc == Accumulated(photos_by_id, prepared, k - 1, dim, recency_tau)
             weight == EventWeight(prepared, k, recency_tau)
         IN  IF Skipped(photos_by_id, prepared[k]) THEN acc
             ELSE [acc EXCEPT !.data = [i \in 1..dim |->
                     acc.data[i] + weight * photos_by_id[prepared[k].photo_id].vector.data[i]]]

\* build_taste_vector without the check of a missing dimension
build_taste_vector_lenient(photos_by_id, events, dim, recency_tau) ==
    LET prepared == _prepare_events(events)
        known == {k \in DOMAIN prepared : prepared[k].photo_id \in DOMAIN photos_by_id}
        inferred == IF dim # NoNumber THEN dim
                    ELSE IF prepared = <<>> \/ known = {} THEN 0
                    ELSE Shape0(photos_by_id[prepared[CHOOSE k \in known :
                                      \A m \in known : k <= m].photo_id].vector)
    IN  [raised |-> FALSE,
         acc |-> Accumulated(photos_by_id, prepared, Len(prepared), inferred, recency_tau),
         vector |-> _safe_norm(Accumulated(photos_by_id, prepared, Len(prepared), inferred,
                                           recency_tau))]

\* build_taste_vector: Raised, or the vector returned and the accumulator
\* it was normalised from
build_taste_vector(photos_by_id, events, dim, recency_tau) ==
    LET prepared == _prepare_events(events)
        known == {k \in DOMAIN prepared : prepared[k].photo_id \in DOMAIN photos_by_id}
        inferred == IF dim # NoNumber THEN dim
                    ELSE IF known = {} THEN NoNumber
                    ELSE Shape0(photos_by_id[prepared[CHOOSE k \in known :
                                      \A m \in known : k <= m].photo_id].vector)
        \* acc += ... raises when a photo's vector is not of the length of acc
        mismatch == \E k \in known :
                        /\ ~Skipped(photos_by_id, prepared[k])
                        /\ Shape0(photos_by_id[prepared[k].photo_id].vector) # inferred
    IN  IF prepared = <<>>
        THEN (IF dim = NoNumber THEN Raised
              ELSE [raised |-> FALSE, acc |-> Zeros(dim), vector |-> Zeros(dim)])
        ELSE IF inferred = NoNumber \/ mismatch THEN Raised
        ELSE [raised |-> FALSE,
              acc |-> Accumulated(photos_by_id, prepared, Len(prepared), inferred, recency_tau),
              vector |-> _safe_norm(Accumulated(photos_by_id, prepared, Len(prepared), inferred,
                                                recency_tau))]

---------------------------------------------------------------------------
(* The photos and the choices                                              *)

MaxEvents == 2

\* photos_by_id of the tests
PhotosById ==
    (<<"p", "1">> :> Photo(<<"p", "1">>, NdArray(<<1, 0>>), <<<<"r", "e", "t", "r", "o">>, <<"w", "a", "r", "m">>>>))
    @@ (<<"p", "2">> :> Photo(<<"p", "2">>, NdArray(<<0, 1>>), <<<<"w", "a", "r", "m">>, <<"b", "o", "l", "d">>>>))

\* choices of known and unknown photos, of known and unknown kinds, with
\* and without a recency_index
EventPool ==
    {ChoiceEvent(id, kind, rec) :
        id \in {<<"p", "1">>, <<"p", "2">>, <<"z", "z">>},
        kind \in {<<"l", "i", "k", "e">>, <<"d", "i", "s", "l", "i", "k", "e">>, <<"m", "e", "h">>},
        rec \in {NoNumber, 2}}

EventLists == SeqsUpTo(EventPool, MaxEvents)

Dims == {NoNumber, 2, 3}

Taus == {<<"1", "e", "-", "0", "7">>, <<"1", ".", "4", "4", "2", "6", "9", "5", "0", "4", "0", "8", "8", "8", "9", "6", "3", "4">>, <<"1", "e", "+", "1", "7">>}

TVInit ==
    /\ tv_call \in [events : EventLists, dim : Dims, recency_tau : Taus]
    /\ tv_result = NoResult

TVIdle == tv_call = NoResult /\ tv_result = NoResult

\* the events the loop did not pass over, in the order of the loop, each
\* with the weight * decay it was given
AppliedWeights(photos_by_id, events, recency_tau) ==
    LET prepared == _prepare_events(events)
        weighed == [k \in DOMAIN prepared |->
                       [event |-> prepared[k], weight |-> EventWeight(prepared, k, recency_tau)]]
    IN  SelectSeq(weighed, LAMBDA w : ~Skipped(photos_by_id, w.event))

\* one call of build_taste_vector: what it returned, and the weights its
\* loop applied
BuildTaste ==
    /\ ~tv_result.called
    /\ \E out \in {build_taste_vector(PhotosById, tv_call.events, tv_call.dim,
                                      tv_call.recency_tau)} :
          tv_result' = [called |-> TRUE, out |-> out,
                        applied |-> IF out.raised THEN <<>>
                                    ELSE AppliedWeights(PhotosById, tv_call.events,
                                                        tv_call.recency_tau)]
    /\ UNCHANGED tv_call
    /\ UNCHANGED <<qb_vars, sq_vars, qi_vars, bt_vars, is_vars, rr_vars, fb_vars, rg_vars, tt_vars, mm_vars, cf_vars, ql_vars, ag_vars>>

---------------------------------------------------------------------------
(* aggregate_tag_preferences and top_tags_from_events (src/src/taste.py)   *)
(*                                                                         *)
(* The dictionary of tag weights is the sequence of its (tag, weight)      *)
(* pairs in the order the tags were first set, the weights in 128ths.      *)

\* tag_weights[tag] = tag_weights.get(tag, 0.0) + weight
AddWeight(tag_weights, tag, weight) ==
    IF \E i \in DOMAIN tag_weights : tag_weights[i][1] = tag
    THEN [i \in DOMAIN tag_weights |->
             IF tag_weights[i][1] = tag THEN <<tag, tag_weights[i][2] + weight>>
             ELSE tag_weights[i]]
    ELSE Append(tag_weights, <<tag, weight>>)

\* for tag in photo.tags: ..., over the first n tags
RECURSIVE AddTags(_, _, _, _)
AddTags(tag_weights, tags, n, weight) ==
    IF n = 0 THEN tag_weights
    ELSE AddWeight(AddTags(tag_weights, tags, n - 1, weight), tags[n], weight)

\* tag_weights after the first k events of prepared
RECURSIVE TagWeights(_, _, _, _)
TagWeights(photos_by_id, prepared, k, recency_tau) ==
    IF k = 0 THEN <<>>
    ELSE LET tag_weights == TagWeights(photos_by_id, prepared, k - 1, recency_tau)
         IN  IF Skipped(photos_by_id, prepared[k]) THEN tag_weights
             ELSE AddTags(tag_weights, photos_by_id[prepared[k].photo_id].tags,
                          Len(photos_by_id[prepared[k].photo_id].tags),
                          EventWeight(prepared, k, recency_tau))

\* aggregate_tag_preferences
aggregate_tag_preferences(photos_by_id, events, recency_tau) ==
    TagWeights(photos_by_id, _prepare_events(events), Len(events), recency_tau)

\* top_tags_from_events
top_tags_from_events(photos_by_id, events, top_k, recency_tau) ==
    LET weights == aggregate_tag_preferences(photos_by_id, events, recency_tau)
        greater == [i \in DOMAIN weights |-> [j \in DOMAIN weights |->
                       weights[i][2] > weights[j][2]]]
        sorted_tags == SortedReverse(weights, greater)
        cut == SliceTo(sorted_tags, top_k)
    IN  [i \in DOMAIN cut |-> cut[i][1]]

MaxTopTags == 2

TagTopKs == (-1)..MaxTopTags

TTInit ==
    /\ tt_call \in [events : EventLists, recency_tau : Taus, top_k : TagTopKs]
    /\ tt_weights = NoResult
    /\ tt_result = NoResult

TTIdle == tt_call = NoResult /\ tt_weights = NoResult /\ tt_result = NoResult

\* one call of aggregate_tag_preferences
AggregateTags ==
    /\ ~tt_weights.called
    /\ tt_weights' = [called |-> TRUE,
                      weights |-> aggregate_tag_preferences(PhotosById, tt_call.events,
                                                            tt_call.recency_tau)]
    /\ UNCHANGED <<tt_call, tt_result>>
    /\ UNCHANGED <<qb_vars, sq_vars, qi_vars, bt_vars, is_vars, rr_vars, fb_vars, rg_vars, tv_vars, mm_vars, cf_vars, ql_vars, ag_vars>>

\* one call of top_tags_from_events
TopTags ==
    /\ ~tt_result.called
    /\ tt_result' = [called |-> TRUE,
                     tags |-> top_tags_from_events(PhotosById, tt_call.events, tt_call.top_k,
                                                   tt_call.recency_tau)]
    /\ UNCHANGED <<tt_call, tt_weights>>
    /\ UNCHANGED <<qb_vars, sq_vars, qi_vars, bt_vars, is_vars, rr_vars, fb_vars, rg_vars, tv_vars, mm_vars, cf_vars, ql_vars, ag_vars>>

---------------------------------------------------------------------------
(* select_next_photo_greedy_mmr (src/src/taste.py)                         *)
(*                                                                         *)
(* The modelled vectors lie on the axes or are zero, so that a cosine is   *)
(* -1, 0 or 1 up to the eps of 1e-9 in its denominator: cosines are whole  *)
(* numbers of 20ths, lambda_diversity too, and a score is a whole number   *)
(* of 400ths.  Scores that are equal here are computed by the same         *)
(* floating-point operations on the same values, and are equal there.      *)

\* a cosine in 20ths
In20ths(c) ==
    CHOOSE v \in (-20)..20 : /\ v * v * c.den = 400 * c.num * c.num
                             /\ (v < 0) = (c.num < 0)

\* lambda_diversity in 20ths
Lambda20(lambda_diversity) ==
    IF lambda_diversity = <<"0", ".", "2", "5">> THEN 5 ELSE 0

\* max(sims) for a non-empty list of numbers
MaxOf(xs) == CHOOSE x \in Range(xs) : \A y \in Range(xs) : y <= x

\* shown_ids[-recent_window:] if recent_window > 0 else []
RecentIds(shown_ids, recent_window) ==
    IF recent_window <= 0 THEN <<>>
    ELSE IF recent_window >= Len(shown_ids) THEN shown_ids
    ELSE SubSeq(shown_ids, Len(shown_ids) - recent_window + 1, Len(shown_ids))

\* the score of a photo, in 400ths: info - diversity_penalty
MmrScore(photo, taste_vec, recent_vecs, lambda_diversity) ==
    LET info == 20 - Abs(In20ths(_cosine(taste_vec, photo.vector)))
        sims == [i \in DOMAIN recent_vecs |-> In20ths(_cosine(photo.vector, recent_vecs[i]))]
        diversity_penalty == IF recent_vecs # <<>> THEN Lambda20(lambda_diversity) * MaxOf(sims)
                             ELSE 0
    IN  20 * info - diversity_penalty

\* BestAfter taking a later candidate of equal score
BestAfter_last(candidate_ids, n, photos_by_id, taste_vec, recent_vecs, lambda_diversity) ==
    LET known == {k \in 1..n : candidate_ids[k] \in DOMAIN photos_by_id}
        score(k) == MmrScore(photos_by_id[candidate_ids[k]], taste_vec, recent_vecs,
                             lambda_diversity)
    IN  IF known = {} THEN [best_id |-> None, scored |-> FALSE, best_score |-> 0]
        ELSE LET k == CHOOSE k \in known :
                          /\ \A m \in known : score(m) <= score(k)
                          /\ \A m \in known : score(m) = score(k) => m <= k
             IN  [best_id |-> candidate_ids[k], scored |-> TRUE, best_score |-> score(k)]

\* the loop over the first n candidates: best_id and best_score; until a
\* candidate is known best_score is -1e9, which is below every score
RECURSIVE BestAfter(_, _, _, _, _, _)
BestAfter(candidate_ids, n, photos_by_id, taste_vec, recent_vecs, lambda_diversity) ==
    IF n = 0 THEN [best_id |-> None, scored |-> FALSE, best_score |-> 0]
    ELSE LET best == BestAfter(candidate_ids, n - 1, photos_by_id, taste_vec, recent_vecs,
                               lambda_diversity)
             pid == candidate_ids[n]
         IN  IF pid \notin DOMAIN photos_by_id THEN best
             ELSE LET score == MmrScore(photos_by_id[pid], taste_vec, recent_vecs,
                                        lambda_diversity)
                  IN  IF ~best.scored \/ score > best.best_score
                      THEN [best_id |-> pid, scored |-> TRUE, best_score |-> score]
                      ELSE best

\* rng.choice(candidate_ids, size=sample_k, replace=False): the lists of
\* sample_k candidates drawn from different places of the list
Samples(candidate_ids, sample_k) ==
    {[i \in 1..sample_k |-> candidate_ids[places[i]]] :
        places \in {p \in [1..sample_k -> DOMAIN candidate_ids] :
                        \A i, j \in 1..sample_k : i # j => p[i] # p[j]}}

\* select_next_photo_greedy_mmr: the set of the ids it can return, one when
\* no sample is drawn
select_next_photo_greedy_mmr(candidate_ids, photos_by_id, taste_vec, shown_ids, lambda_diversity, recent_window, sample_k) ==
    IF candidate_ids = <<>> THEN {None}
    ELSE LET pools == IF sample_k # NoNumber /\ Len(candidate_ids) > sample_k
                      THEN Samples(candidate_ids, sample_k)
                      ELSE {candidate_ids}
             recent_ids == RecentIds(shown_ids, recent_window)
             recent_known == SelectSeq(recent_ids, LAMBDA sid : sid \in DOMAIN photos_by_id)
             recent_vecs == [i \in DOMAIN recent_known |-> photos_by_id[recent_known[i]].vector]
         IN  {BestAfter(pool, Len(pool), photos_by_id, taste_vec, recent_vecs,
                        lambda_diversity).best_id : pool \in pools}

---------------------------------------------------------------------------
(* The photos that are offered                                             *)

MaxCandidates == 3

MaxShown == 2

\* photos on the axes, and one without direction
MmrPhotos ==
    (<<"a">> :> Photo(<<"a">>, NdArray(<<1, 0>>), <<>>))
    @@ (<<"b">> :> Photo(<<"b">>, NdArray(<<0, 1>>), <<>>))
    @@ (<<"c">> :> Photo(<<"c">>, NdArray(<<-1, 0>>), <<>>))
    @@ (<<"o">> :> Photo(<<"o">>, NdArray(<<0, 0>>), <<>>))

CandidateLists == SeqsUpTo({<<"a">>, <<"b">>, <<"c">>, <<"z", "z">>}, MaxCandidates)

ShownLists == SeqsUpTo({<<"a">>, <<"o">>, <<"z", "z">>}, MaxShown)

MMInit ==
    /\ mm_call \in [candidate_ids : CandidateLists, taste_vec : {NdArray(<<1, 0>>), NdArray(<<0, 0>>)},
                    shown_ids : ShownLists, lambda_diversity : {<<"0", ".", "2", "5">>, <<"0", ".", "0">>},
                    recent_window : {0, 1, 5}, sample_k : {NoNumber, 1}]
    /\ mm_result = NoResult

MMIdle == mm_call = NoResult /\ mm_result = NoResult

\* one call of select_next_photo_greedy_mmr
SelectNext ==
    /\ ~mm_result.called
    /\ \E best_id \in select_next_photo_greedy_mmr(
                          mm_call.candidate_ids, MmrPhotos, mm_call.taste_vec, mm_call.shown_ids,
                          mm_call.lambda_diversity, mm_call.recent_window, mm_call.sample_k) :
          mm_result' = [called |-> TRUE, returned |-> best_id]
    /\ UNCHANGED mm_call
    /\ UNCHANGED <<qb_vars, sq_vars, qi_vars, bt_vars, is_vars, rr_vars, fb_vars, rg_vars, tv_vars, tt_vars, cf_vars, ql_vars, ag_vars>>

---------------------------------------------------------------------------
(* choose_final_best (src/src/rerank_llm.py)                               *)
(*                                                                         *)
(* A RerankResult is a record of its fields; a score is a Float as in      *)
(* heuristic_rerank.  The dictionary the function returns is a record, and *)
(* None is NoPick.                                                         *)

NoPick == [none |-> TRUE]

\* max(items, key=lambda item: item.score) for a non-empty list: the first
\* item that no other item beats
MaxByScore(items) ==
    items[CHOOSE i \in DOMAIN items :
            /\ \A j \in DOMAIN items : ~FloatLess(items[i].score, items[j].score)
            /\ \A j \in 1..(i - 1) : FloatLess(items[j].score, items[i].score)]

\* the results the pick is made among, were it made among all of them
FinalCandidates_all(results) == results

\* results[:3]
FinalCandidates(results) == PyPrefix(results, 3)

\* the rationale: the reason without its semicolons, its runs of spaces
\* made one, cut to 18 words
Rationale(reason) ==
    LET words == Split(ReplaceChar(reason, ";", " "))
    IN  IF Len(words) > 18
        THEN Join(<<" ">>, PyPrefix(words, 18))
        ELSE Join(<<" ">>, words)

choose_final_best(results) ==
    IF results = <<>> THEN NoPick
    ELSE LET best == MaxByScore(FinalCandidates(results))
         IN  [none |-> FALSE, best_sku |-> best.sku, why |-> Rationale(best.reason)]

---------------------------------------------------------------------------
(* The calls of choose_final_best the model draws                          *)

MaxResults == 4

\* RerankResult(sku, score, age_fit, passed, reason): the three results of
\* the test, one above them all, and two that tie with the first two, one
\* with a reason of 20 words and one with a reason of semicolons and spaces
ResultPool ==
    {[sku |-> <<"a">>, score |-> Float(42, 0), age_fit |-> TRUE, passed |-> TRUE,
      reason |-> <<"M", "a", "t", "c", "h", "e", "s", " ", "r", "e", "t", "r", "o", ";", " ", "i", "n", " ", "b", "u", "d", "g", "e", "t">>],
     [sku |-> <<"b">>, score |-> Float(48, 0), age_fit |-> TRUE, passed |-> TRUE,
      reason |-> <<"M", "a", "t", "c", "h", "e", "s", " ", "c", "o", "s", "y", ";", " ", "i", "n", " ", "b", "u", "d", "g", "e", "t">>],
     [sku |-> <<"c">>, score |-> Float(36, 0), age_fit |-> TRUE, passed |-> TRUE,
      reason |-> <<"B", "r", "o", "a", "d", " ", "a", "p", "p", "e", "a", "l">>],
     [sku |-> <<"d">>, score |-> Float(60, 0), age_fit |-> FALSE, passed |-> FALSE,
      reason |-> <<"B", "r", "o", "a", "d", " ", "a", "p", "p", "e", "a", "l", ";", " ", "o", "v", "e", "r", " ", "b", "u", "d", "g", "e", "t", ";", " ", "a", "g", "e", " ", "m", "i", "s", "m", "a", "t", "c", "h">>],
     [sku |-> <<"e">>, score |-> Float(48, 0), age_fit |-> TRUE, passed |-> TRUE,
      reason |-> <<"a", ";", " ", "b", " ", "c", " ", "d", " ", "e", " ", "f", " ", "g", " ", "h", " ", "i", " ", "j", " ", "k", " ", "l", " ", "m", " ", "n", " ", "o", " ", "p", " ", "q", " ", "r", ";", "s", " ", "t">>],
     [sku |-> <<"f">>, score |-> Float(42, 0), age_fit |-> TRUE, passed |-> FALSE,
      reason |-> <<" ", ";", ";", " ", ";", " ">>]}

ResultLists == SeqsUpTo(ResultPool, MaxResults)

CFInit ==
    /\ cf_call \in [results : ResultLists]
    /\ cf_result = NoResult

CFIdle == cf_call = NoResult /\ cf_result = NoResult

\* choose_final_best
ChooseFinal ==
    /\ ~cf_result.called
    /\ cf_result' = [called |-> TRUE, out |-> choose_final_best(cf_call.results)]
    /\ UNCHANGED cf_call
    /\ UNCHANGED <<qb_vars, sq_vars, qi_vars, bt_vars, is_vars, rr_vars, fb_vars, rg_vars, tv_vars, tt_vars, mm_vars, ql_vars, ag_vars>>

---------------------------------------------------------------------------
(* The optional rewrite of QueryInterpreter.interpret                      *)
(* (src/src/query_interpreter.py)                                          *)
(*                                                                         *)
(* The rewrite service is outside the program.  What it does in one call   *)
(* is a record: whether OPENAI_API_KEY is set, whether the client raises,  *)
(* and the content of the reply (None or a string).  The prompt built of   *)
(* allowed_terms, cohort and budget goes to the service only.              *)

Service(api_key, raises, content) == [api_key |-> api_key, raises |-> raises, content |-> content]

\* s.replace(bad, ""): the leftmost occurrences that do not overlap
RemoveAll(s, bad) ==
    LET M(t, i) == IF i + Len(bad) - 1 <= Len(t) /\ SubSeq(t, i, i + Len(bad) - 1) = bad
                   THEN i + Len(bad) ELSE 0
    IN  SubFrom(M, <<>>, s, 1, <<>>)

\* for bad in bads: s = s.replace(bad, ""), in each order in which the set
\* can be iterated
RECURSIVE RemoveInAnyOrder(_, _)
RemoveInAnyOrder(s, bads) ==
    IF bads = {} THEN {s}
    ELSE UNION {RemoveInAnyOrder(RemoveAll(s, b), bads \ {b}) : b \in bads}

\* the terms of FORBIDDEN that can occur in s or in what is left of s when
\* other terms are removed: the rest leave the string as it is at any turn
CanOccur(s) == {bad \in FORBIDDEN : Range(bad) \subseteq Range(s)}

\* _llm_rewrite: the strings (or None) it can return
_llm_rewrite(service) ==
    IF ~service.api_key \/ service.raises THEN {None}
    ELSE LET s == IF service.content = None THEN <<>> ELSE Lower(Strip(service.content))
         IN  {IF Split(r) = <<>> THEN None ELSE Join(<<" ">>, Split(r)) :
                  r \in RemoveInAnyOrder(s, CanOccur(s))}

\* the dict interpret returns, were each query replaced by the rewrite
InterpretReturn_rewritten(det, demographics, llm_phrase) ==
    [tokens |-> det.tokens, categories |-> det.categories, styles |-> det.styles,
     palettes |-> det.palettes, cohort |-> det.cohort,
     llm_phrase_preview |-> llm_phrase,
     queries_multi |-> IF llm_phrase = None THEN det.queries_multi
                       ELSE [k \in DOMAIN det.queries_multi |->
                                <<det.queries_multi[k][1], llm_phrase>>],
     recipient |-> det.recipient, filters |-> demographics.filters]

\* the dict interpret returns: det holds the entries computed without the
\* rewrite
InterpretReturn(det, demographics, llm_phrase) ==
    [tokens |-> det.tokens, categories |-> det.categories, styles |-> det.styles,
     palettes |-> det.palettes, cohort |-> det.cohort,
     llm_phrase_preview |-> llm_phrase,
     queries_multi |-> det.queries_multi,
     recipient |-> det.recipient, filters |-> demographics.filters]

\* llm_phrase = _llm_rewrite(...) if use_llm else None
llm_phrase_of(use_llm, service) == IF use_llm THEN _llm_rewrite(service) ELSE {None}

---------------------------------------------------------------------------
(* The calls of interpret the rewrite is exercised on                      *)

MaxRewriteTokens == 1

RewriteTokenLists == SeqsUpTo(TokenPool, MaxRewriteTokens)

\* results of infer_demographics_from_photos with their filters (a dict as
\* the set of its items): nothing inferred, or a gender, a recipient, an
\* occasion and a category
RewriteDemographics ==
    {[recipient |-> None, occasion |-> None, categories |-> <<>>, filters |-> {}],
     [recipient |-> <<"w", "o", "m", "a", "n">>, occasion |-> <<"A", "n", "n", "i", "v", "e", "r", "s", "a", "r", "y">>, categories |-> <<<<"O", "u", "t", "d", "o", "o", "r", "s">>>>,
      filters |-> {<<<<"G", "e", "n", "d", "e", "r">>, <<"W", "o", "m", "e", "n">>>>, <<<<"O", "c", "c", "a", "s", "i", "o", "n">>, <<"A", "n", "n", "i", "v", "e", "r", "s", "a", "r", "y">>>>}]}

RewriteHints == {None, <<"c", "o", "u", "p", "l", "e">>}

\* no key; a client that raises; a reply without content; replies that
\* hold forbidden terms only, forbidden terms among others, and two
\* forbidden terms of which the one removed first decides what is left
Services ==
    {Service(FALSE, FALSE, None), Service(TRUE, TRUE, None), Service(TRUE, FALSE, None),
     Service(TRUE, FALSE, <<" ", "G", "i", "r", "l", " ">>), Service(TRUE, FALSE, <<"R", "e", "t", "r", "o", " ", " ", "g", "i", "f", "t", "s", " ", "f", "o", "r", " ", "M", "e", "n", " ">>),
     Service(TRUE, FALSE, <<"m", "a", "w", "o", "m", "a", "n", "n">>)}

QLInit ==
    /\ ql_call \in [tokens : RewriteTokenLists, categories : CategoryLists,
                    demographics : RewriteDemographics, signals : Signals,
                    budget_aud : QIBudgets, recipient_hint : RewriteHints]
    /\ ql_result = NoResult
    /\ ql_earlier = NoResult

QLIdle == ql_call = NoResult /\ ql_result = NoResult /\ ql_earlier = NoResult

\* QueryInterpreter.interpret, called once and once more with the same
\* arguments but for use_llm, the service doing what it does at each call
InterpretWithRewrite ==
    /\ ql_earlier = NoResult
    /\ \E det \in {interpret(ql_call.tokens, ql_call.categories, ql_call.demographics,
                             ql_call.signals, ql_call.budget_aud, ql_call.recipient_hint)} :
          \E use_llm \in BOOLEAN, service \in Services :
              \E llm_phrase \in llm_phrase_of(use_llm, service) :
                  ql_result' = [called |-> TRUE, use_llm |-> use_llm,
                                returned |-> InterpretReturn(det, ql_call.demographics, llm_phrase)]
    /\ ql_earlier' = ql_result
    /\ UNCHANGED ql_call
    /\ UNCHANGED <<qb_vars, sq_vars, qi_vars, bt_vars, is_vars, rr_vars, fb_vars, rg_vars, tv_vars, tt_vars, mm_vars, cf_vars, ag_vars>>

---------------------------------------------------------------------------
(* heuristic_rerank (src/src/rerank_llm.py) and filter_budget_and_age      *)
(* (src/src/rank_embed.py) called on the same gifts, budget and age prior  *)

MaxShared == 2

\* what heuristic_rerank reads of a Gift: sku, price, tags and
\* meta.get("age_fit", [])
RerankView(gift) ==
    [sku |-> gift.sku, price |-> gift.price, tags |-> gift.tags,
     age_fit |-> DictGet(gift.meta, "age_fit", <<>>)]

\* gifts with a price: below, on the ends of, inside and above the budget
\* 30 to 80; without meta, with an empty age_fit, and with ages in either
\* case
SharedGifts ==
    {Gift(<<"g", "1">>, <<>>, 20, <<<<"c", "o", "z", "y">>>>, <<>>, <<>>, NoVector),
     Gift(<<"g", "2">>, <<>>, 30, <<<<"c", "o", "z", "y">>>>, ("age_fit" :> <<<<"T", "e", "e", "n">>>>), <<>>, NoVector),
     Gift(<<"g", "3">>, <<>>, 55, <<>>, ("age_fit" :> <<>>), <<>>, NoVector),
     Gift(<<"g", "4">>, <<>>, 55, <<<<"N", "e", "o", "n">>>>, ("age_fit" :> <<<<"a", "d", "u", "l", "t">>>>), <<>>, NoVector),
     Gift(<<"g", "5">>, <<>>, 80, <<>>, <<>>, <<>>, NoVector),
     Gift(<<"g", "6">>, <<>>, 80, <<<<"c", "o", "z", "y">>>>, ("age_fit" :> <<<<"k", "i", "d", "s">>, <<"T", "E", "E", "N">>>>), <<>>, NoVector),
     Gift(<<"g", "7">>, <<>>, 140, <<<<"c", "o", "z", "y">>>>, ("age_fit" :> <<<<"A", "d", "u", "l", "t">>>>), <<>>, NoVector),
     Gift(<<"g", "8">>, <<>>, 55, <<<<"c", "o", "z", "y">>>>, ("age_fit" :> <<<<"k", "i", "d", "s">>>>), <<>>, NoVector)}

\* lists of distinct gifts
SharedGiftLists ==
    {q \in SeqsUpTo(SharedGifts, MaxShared) : Cardinality(Range(q)) = Len(q)}

SharedTastes == {<<>>, <<<<"c", "o", "z", "y">>>>, <<<<"w", "a", "r", "m">>, <<"N", "E", "O", "N">>>>}

\* a budget, a budget of one price, and one with min above max
SharedBudgets == {<<30, 80>>, <<55, 55>>, <<100, 60>>}

SharedAgePriors == {<<>>, <<<<"A", "d", "u", "l", "t">>>>, <<<<"t", "e", "e", "n">>, <<"a", "d", "u", "l", "t">>>>}

\* keep_top below and above the number of gifts
SharedKeepTops == {1, 6}

AGInit ==
    /\ ag_call \in [gifts : SharedGiftLists, taste_top_tags : SharedTastes,
                    budget : SharedBudgets, age_prior : SharedAgePriors,
                    keep_top : SharedKeepTops]
    /\ ag_result = NoResult

AGIdle == ag_call = NoResult /\ ag_result = NoResult

\* heuristic_rerank and filter_budget_and_age on the same gifts, each paired
\* with a score for the filter: its place
RerankAndFilter ==
    /\ ~ag_result.called
    /\ \E out \in heuristic_rerank([i \in DOMAIN ag_call.gifts |-> RerankView(ag_call.gifts[i])],
                                   ag_call.taste_top_tags, ag_call.budget,
                                   ag_call.age_prior, ag_call.keep_top) :
       \E kept \in {filter_budget_and_age([i \in DOMAIN ag_call.gifts |-> <<ag_call.gifts[i], i>>],
                                           ag_call.budget, ag_call.age_prior)} :
          ag_result' = [called |-> TRUE, results |-> out.results, returned |-> out.returned,
                        raised |-> kept.raised, filtered |-> kept.filtered]
    /\ UNCHANGED ag_call
    /\ UNCHANGED <<qb_vars, sq_vars, qi_vars, bt_vars, is_vars, rr_vars, fb_vars, rg_vars, tv_vars, tt_vars, mm_vars, cf_vars, ql_vars>>

---------------------------------------------------------------------------
(* Specifications: one per component, the other components idle           *)

InitQB == QBInit /\ SQIdle /\ QIIdle /\ BTIdle /\ ISIdle /\ RRIdle /\ FBIdle /\ RGIdle /\ TVIdle /\ TTIdle /\ MMIdle /\ CFIdle /\ QLIdle /\ AGIdle

NextQB == Compose /\ UNCHANGED <<sq_vars, qi_vars, bt_vars, is_vars, rr_vars, fb_vars, rg_vars, tv_vars, tt_vars, mm_vars, cf_vars, ql_vars, ag_vars>>

SpecQB == InitQB /\ [][NextQB]_vars

InitSQ == SQInit /\ QBIdle /\ QIIdle /\ BTIdle /\ ISIdle /\ RRIdle /\ FBIdle /\ RGIdle /\ TVIdle /\ TTIdle /\ MMIdle /\ CFIdle /\ QLIdle /\ AGIdle

NextSQ == Sanitize /\ UNCHANGED <<qb_vars, qi_vars, bt_vars, is_vars, rr_vars, fb_vars, rg_vars, tv_vars, tt_vars, mm_vars, cf_vars, ql_vars, ag_vars>>

SpecSQ == InitSQ /\ [][NextSQ]_vars

InitQI == QIInit /\ QBIdle /\ SQIdle /\ BTIdle /\ ISIdle /\ RRIdle /\ FBIdle /\ RGIdle /\ TVIdle /\ TTIdle /\ MMIdle /\ CFIdle /\ QLIdle /\ AGIdle

NextQI == Interpret /\ UNCHANGED <<qb_vars, sq_vars, bt_vars, is_vars, rr_vars, fb_vars, rg_vars, tv_vars, tt_vars, mm_vars, cf_vars, ql_vars, ag_vars>>

SpecQI == InitQI /\ [][NextQI]_vars

InitBT == BTInit /\ QBIdle /\ SQIdle /\ QIIdle /\ ISIdle /\ RRIdle /\ FBIdle /\ RGIdle /\ TVIdle /\ TTIdle /\ MMIdle /\ CFIdle /\ QLIdle /\ AGIdle

NextBT == Build /\ UNCHANGED <<qb_vars, sq_vars, qi_vars, is_vars, rr_vars, fb_vars, rg_vars, tv_vars, tt_vars, mm_vars, cf_vars, ql_vars, ag_vars>>

SpecBT == InitBT /\ [][NextBT]_vars

InitIS == ISInit /\ QBIdle /\ SQIdle /\ QIIdle /\ BTIdle /\ RRIdle /\ FBIdle /\ RGIdle /\ TVIdle /\ TTIdle /\ MMIdle /\ CFIdle /\ QLIdle /\ AGIdle

NextIS ==
    \/ Refresh
    \/ ChooseLeft
    \/ ChooseRight
    \/ Neither
    \/ StartOver

SpecIS == InitIS /\ [][NextIS]_vars

InitRR == RRInit /\ QBIdle /\ SQIdle /\ QIIdle /\ BTIdle /\ ISIdle /\ FBIdle /\ RGIdle /\ TVIdle /\ TTIdle /\ MMIdle /\ CFIdle /\ QLIdle /\ AGIdle

NextRR == Rerank /\ UNCHANGED <<qb_vars, sq_vars, qi_vars, bt_vars, is_vars, fb_vars, rg_vars, tv_vars, tt_vars, mm_vars, cf_vars, ql_vars, ag_vars>>

SpecRR == InitRR /\ [][NextRR]_vars

InitFB == FBInit /\ QBIdle /\ SQIdle /\ QIIdle /\ BTIdle /\ ISIdle /\ RRIdle /\ RGIdle /\ TVIdle /\ TTIdle /\ MMIdle /\ CFIdle /\ QLIdle /\ AGIdle

NextFB ==
    \/ LoadGifts
    \/ MakeGifts
    \/ FilterGifts

SpecFB == InitFB /\ [][NextFB]_vars

InitRG == RGInit /\ QBIdle /\ SQIdle /\ QIIdle /\ BTIdle /\ ISIdle /\ RRIdle /\ FBIdle /\ TVIdle /\ TTIdle /\ MMIdle /\ CFIdle /\ QLIdle /\ AGIdle

NextRG == RankGifts

SpecRG == InitRG /\ [][NextRG]_vars

InitTV == TVInit /\ QBIdle /\ SQIdle /\ QIIdle /\ BTIdle /\ ISIdle /\ RRIdle /\ FBIdle /\ RGIdle /\ TTIdle /\ MMIdle /\ CFIdle /\ QLIdle /\ AGIdle

NextTV == BuildTaste

SpecTV == InitTV /\ [][NextTV]_vars

InitTT == TTInit /\ QBIdle /\ SQIdle /\ QIIdle /\ BTIdle /\ ISIdle /\ RRIdle /\ FBIdle /\ RGIdle /\ TVIdle /\ MMIdle /\ CFIdle /\ QLIdle /\ AGIdle

NextTT ==
    \/ AggregateTags
    \/ TopTags

SpecTT == InitTT /\ [][NextTT]_vars

InitMM == MMInit /\ QBIdle /\ SQIdle /\ QIIdle /\ BTIdle /\ ISIdle /\ RRIdle /\ FBIdle /\ RGIdle /\ TVIdle /\ TTIdle /\ CFIdle /\ QLIdle /\ AGIdle

NextMM == SelectNext

SpecMM == InitMM /\ [][NextMM]_vars

InitCF == CFInit /\ QBIdle /\ SQIdle /\ QIIdle /\ BTIdle /\ ISIdle /\ RRIdle /\ FBIdle /\ RGIdle /\ TVIdle /\ TTIdle /\ MMIdle /\ QLIdle /\ AGIdle

NextCF == ChooseFinal

SpecCF == InitCF /\ [][NextCF]_vars

InitQL == QLInit /\ QBIdle /\ SQIdle /\ QIIdle /\ BTIdle /\ ISIdle /\ RRIdle /\ FBIdle /\ RGIdle /\ TVIdle /\ TTIdle /\ MMIdle /\ CFIdle /\ AGIdle

NextQL == InterpretWithRewrite

SpecQL == InitQL /\ [][NextQL]_vars

InitAG == AGInit /\ QBIdle /\ SQIdle /\ QIIdle /\ BTIdle /\ ISIdle /\ RRIdle /\ FBIdle /\ RGIdle /\ TVIdle /\ TTIdle /\ MMIdle /\ CFIdle /\ QLIdle

NextAG == RerankAndFilter

SpecAG == InitAG /\ [][NextAG]_vars

---------------------------------------------------------------------------
(* Claims about sanitize_query                                             *)

Cleaned == sq_result.cleaned

\* C4 (as claimed): the output of sanitize_query contains no forbidden term
\* as a whole word or phrase (ignoring case) and no gift-card phrase, and its
\* whitespace is single and not leading or trailing.
C4_SanitizedIsClean ==
    sq_result.called =>
        /\ \A t \in Range(FORBIDDEN_TERMS) :
              \A i \in 1..Len(Cleaned) : MatchTerm(t, Cleaned, i) = 0
        /\ \A i \in 1..Len(Cleaned) : MatchGiftCard(Cleaned, i) = 0
        /\ \A i \in 1..Len(Cleaned) :
              IsSpace(Cleaned[i]) =>
                  i # 1 /\ i # Len(Cleaned) /\ ~IsSpace(Cleaned[i + 1])

---------------------------------------------------------------------------
(* Claims about QueryInterpreter                                           *)

\* the term occurs in s as a whole word or phrase, ignoring case
HasWord(term, s) == \E i \in 1..Len(s) : MatchTerm(term, s, i) # 0

\* C3 (as claimed): no bucket query returned by interpret contains a term of
\* FORBIDDEN as a whole word.
C3_QueriesDemographicSafe ==
    qi_result.called =>
        \A k \in DOMAIN qi_result.queries_multi :
            \A t \in FORBIDDEN : ~HasWord(t, qi_result.queries_multi[k][2])

---------------------------------------------------------------------------
(* Claims about the image-choice tree and its session                      *)

\* C7: for a pool of at least three distinct ids with distinct embedding
\* rows and any seed, build_greedy_tree returns a tree whose leaves are the
\* ids of the pool, each exactly once, and each internal node has a left and
\* a right subtree with at least one leaf.
C7_TreePartition ==
    (bt_result.called /\ Len(bt_call.leaf_ids) >= 3) =>
        LET tree == bt_result.tree
        IN  /\ IsDict(tree)
            /\ Len(LeavesOf(tree)) = Len(bt_call.leaf_ids)
            /\ Range(LeavesOf(tree)) = Range(bt_call.leaf_ids)
            /\ \A node \in NodesOf(tree) :
                  IsDict(node) => LeavesOf(node.left) # <<>> /\ LeavesOf(node.right) # <<>>

\* a tree of four or more items built with a seed, split again on both sides
C7_Witness ==
    /\ bt_result.called
    /\ Len(bt_call.leaf_ids) >= 4
    /\ bt_call.seed # NoSeed
    /\ IsDict(bt_result.tree)
    /\ \E node \in NodesOf(bt_result.tree) :
          IsDict(node) /\ Len(LeavesOf(node)) >= 3 /\ node # bt_result.tree

\* C8: after every run of the session the displayed node is a node of the
\* current tree, namely the one the stored path leads to; when the walk
\* overran the tree the stored path was emptied and the root is displayed.
C8_WalkStaysInTree ==
    img_tree # NoTree =>
        /\ node_img \in NodesOf(img_tree)
        /\ walk_tree(img_tree, img_path_bits) = node_img
        /\ img_caught => (img_path_bits = <<>> /\ node_img = img_tree)

\* an overrun caught after a reshuffle, in a tree with internal nodes
C8_Witness ==
    /\ img_caught
    /\ img_seed > 0
    /\ IsDict(img_tree)
    /\ node_img = img_tree

---------------------------------------------------------------------------
(* Claims about heuristic_rerank                                           *)

\* C9: given at least one gift and keep_top >= 1, heuristic_rerank returns
\* a non-empty list, and when no gift passed it returns the top keep_top
\* results, all carrying passed = False; with keep_top >= 1 it returns the
\* empty list only when it is given no gifts.
C9_ShortlistNeverEmpty ==
    (rr_result.called /\ rr_call.keep_top >= 1) =>
        /\ rr_result.returned = <<>> <=> rr_call.gifts = <<>>
        /\ (\A i \in DOMAIN rr_result.results : ~rr_result.results[i].passed) =>
              /\ rr_result.returned = PyPrefix(rr_result.results, rr_call.keep_top)
              /\ \A i \in DOMAIN rr_result.returned : ~rr_result.returned[i].passed

\* several gifts, none of which passed, and a shortlist cut to keep_top
C9_Witness ==
    /\ rr_result.called
    /\ rr_call.keep_top >= 1
    /\ Len(rr_call.gifts) > rr_call.keep_top
    /\ \A i \in DOMAIN rr_result.results : ~rr_result.results[i].passed
    /\ Len(rr_result.returned) = rr_call.keep_top

\* the gift a result was computed from
GiftOf(sku) == CHOOSE g \in Range(rr_call.gifts) : g.sku = sku

\* a result of a gift in budget and one of a gift out of budget that has
\* the same tags and the same age_fit
BudgetPair(r, s) ==
    /\ GiftOf(r.sku).tags = GiftOf(s.sku).tags
    /\ GiftOf(r.sku).age_fit = GiftOf(s.sku).age_fit
    /\ ~out_of_budget(GiftOf(r.sku).price, rr_call.budget)
    /\ out_of_budget(GiftOf(s.sku).price, rr_call.budget)

\* C10: a gift priced outside the budget scores at least 0.15 (the double
\* 0.15 is Float(9, -24)) below a gift in budget with the same tags and
\* age_fit, and the clamp to [0, 1] takes nothing off the gap: its decimal
\* value is the whole budget penalty, 0.2, also when both took the age
\* penalty.
C10_BudgetPenaltyFloor ==
    rr_result.called =>
        \A i, j \in DOMAIN rr_result.results :
            BudgetPair(rr_result.results[i], rr_result.results[j]) =>
                LET gap == FloatDiff(rr_result.results[i].score,
                                     rr_result.results[j].score)
                IN  /\ ~FloatLess(gap, Float(9, -24))
                    /\ gap.sixtieths = budget_penalty(TRUE)

\* such a pair where both took the age penalty and no tag matched, so that
\* the score out of budget is the lowest there is
C10_Witness ==
    /\ rr_result.called
    /\ \E i, j \in DOMAIN rr_result.results :
          /\ BudgetPair(rr_result.results[i], rr_result.results[j])
          /\ ~rr_result.results[i].age_fit
          /\ ~rr_result.results[j].age_fit
          /\ rr_result.results[j].score.sixtieths = 3

\* C11: the list heuristic_rerank returns is in falling score order, has at
\* most keep_top entries (none when keep_top is below 1), and holds results
\* with passed = False only when no result passed.
C11_SortedCappedUnmixed ==
    rr_result.called =>
        /\ \A i, j \in DOMAIN rr_result.returned :
              i < j => ~FloatLess(rr_result.returned[i].score, rr_result.returned[j].score)
        /\ Len(rr_result.returned) <= (IF rr_call.keep_top > 0 THEN rr_call.keep_top ELSE 0)
        /\ (\E i \in DOMAIN rr_result.results : rr_result.results[i].passed) =>
              \A i \in DOMAIN rr_result.returned : rr_result.returned[i].passed

---------------------------------------------------------------------------
(* Claims about filter_budget_and_age                                      *)

\* the record at place i is kept by the filter
KeptByFilter(i) ==
    /\ ~fb_result.raised
    /\ \E k \in DOMAIN fb_result.filtered : fb_result.filtered[k][2] = i

\* the age_fit of a record: the empty list when it has no meta or no age_fit
AgeFitOf(record) == DictGet(DictGet(record, "meta", <<>>), "age_fit", <<>>)

\* the age_fit of a record is non-empty and disjoint from the age prior
AgeExcluded(record) ==
    /\ fb_call.age_prior # NoList
    /\ LowerSet(fb_call.age_prior) # {}
    /\ LowerSet(AgeFitOf(record)) # {}
    /\ LowerSet(AgeFitOf(record)) \cap LowerSet(fb_call.age_prior) = {}

\* the price of a record is below the lower or above the upper bound
PriceExcluded(record) ==
    /\ fb_call.budget # NoBudget
    /\ \/ fb_call.budget[1] # NoNumber /\ record["price"] < fb_call.budget[1]
       \/ fb_call.budget[2] # NoNumber /\ record["price"] > fb_call.budget[2]

\* C12: filter_budget_and_age does not fail, keeps a gift without a price
\* unless its age_fit is non-empty and disjoint from the prior, and keeps a
\* gift without age_fit (or with an empty one) unless its price is out of
\* the budget.
C12_AbsenceIsNoViolation ==
    fb_result.called =>
        /\ ~fb_result.raised
        /\ \A i \in DOMAIN fb_call.records :
              /\ ("price" \notin DOMAIN fb_call.records[i] /\ ~AgeExcluded(fb_call.records[i]))
                    => KeptByFilter(i)
              /\ ("price" \in DOMAIN fb_call.records[i] /\ AgeFitOf(fb_call.records[i]) = <<>>
                        /\ ~PriceExcluded(fb_call.records[i]))
                    => KeptByFilter(i)

---------------------------------------------------------------------------
(* Claims about rank_gifts_by_taste                                        *)

\* C13: rank_gifts_by_taste returns at most top_k entries, none when top_k
\* is zero or negative, on the cosine path and on the fallback path.
C13_AtMostTopK ==
    rg_result.called =>
        Len(rg_result.ranked) <= (IF rg_call.top_k > 0 THEN rg_call.top_k ELSE 0)

\* the place of a ranked gift in the list that was given
PlaceOf(gift) == CHOOSE i \in DOMAIN rg_call.gifts : rg_call.gifts[i] = gift

\* every gift has a vector of the dimension of the taste vector
VectorsMatch ==
    /\ rg_call.taste_vec # NoVector
    /\ \A i \in DOMAIN rg_call.gifts :
          /\ rg_call.gifts[i].vector # NoVector
          /\ Shape0(rg_call.gifts[i].vector) = Shape0(rg_call.taste_vec)

\* the cosine similarity of a gift to the taste vector
Similarity(gift) == _cosine(rg_call.taste_vec, gift.vector)

\* C14: when every gift has a vector of the dimension of the taste vector,
\* the gifts come back in falling order of their cosine similarity to it,
\* gifts of equal similarity in the order they were given, and no gift left
\* out is more similar than one returned; when a gift has no vector or the
\* dimensions differ, the TF-IDF fallback ranks all gifts.
C14_CosineOrderOrFallback ==
    (rg_result.called /\ rg_call.gifts # <<>>) =>
        IF VectorsMatch
        THEN /\ rg_result.path = "cosine"
             /\ \A k \in DOMAIN rg_result.ranked :
                   /\ rg_result.ranked[k][1] \in Range(rg_call.gifts)
                   /\ ~CosineLess(rg_result.ranked[k][2], Similarity(rg_result.ranked[k][1]))
                   /\ ~CosineLess(Similarity(rg_result.ranked[k][1]), rg_result.ranked[k][2])
                   /\ \A g \in Range(rg_call.gifts) :
                         (\A m \in DOMAIN rg_result.ranked : rg_result.ranked[m][1] # g)
                             => ~CosineLess(Similarity(rg_result.ranked[k][1]), Similarity(g))
             /\ \A k, m \in DOMAIN rg_result.ranked :
                   k < m =>
                     /\ ~CosineLess(Similarity(rg_result.ranked[k][1]),
                                    Similarity(rg_result.ranked[m][1]))
                     /\ ~CosineLess(Similarity(rg_result.ranked[m][1]),
                                    Similarity(rg_result.ranked[k][1]))
                           => PlaceOf(rg_result.ranked[k][1]) < PlaceOf(rg_result.ranked[m][1])
        ELSE rg_result.path = "tfidf"

\* a cosine ranking of three gifts cut to the two most similar, which are
\* equally similar to the taste vector
C14_Witness ==
    /\ rg_result.called
    /\ rg_call.top_k = 2
    /\ rg_result.path = "cosine"
    /\ Len(rg_result.ranked) = 2
    /\ Len(rg_call.gifts) = 3
    /\ ~CosineLess(rg_result.ranked[1][2], rg_result.ranked[2][2])
    /\ ~CosineLess(rg_result.ranked[2][2], rg_result.ranked[1][2])
    /\ \E g \in Range(rg_call.gifts) : CosineLess(Similarity(g), rg_result.ranked[1][2])

---------------------------------------------------------------------------
(* Claims about build_taste_vector                                         *)

\* an event of the call resolves to a known photo
Resolves(ev) == ev.photo_id \in DOMAIN PhotosById

\* an event of the call is usable: a known photo and a known kind
Usable(ev) == Resolves(ev) /\ ev.kind \in DOMAIN CHOICE_WEIGHTS

\* C15: build_taste_vector fails when dim is omitted and no event resolves
\* to a known photo; when dim is given and no event is usable it does not
\* fail and returns the zero vector of length dim.
C15_DimensionOrError ==
    tv_result.called =>
        /\ (tv_call.dim = NoNumber /\ \A i \in DOMAIN tv_call.events : ~Resolves(tv_call.events[i]))
              => tv_result.out.raised
        /\ (tv_call.dim # NoNumber /\ \A i \in DOMAIN tv_call.events : ~Usable(tv_call.events[i]))
              => /\ ~tv_result.out.raised
                 /\ tv_result.out.vector.data = [i \in 1..tv_call.dim |-> 0]

\* a call without dim whose events name unknown photos only, which failed
C15_Witness ==
    /\ tv_result.called
    /\ tv_call.dim = NoNumber
    /\ Len(tv_call.events) = 2
    /\ tv_result.out.raised

\* C17: of two usable events of one kind, the one with the greater
\* recency_index is given the weight of strictly greater magnitude, and the
\* latest event of the list is given its base weight, its decay being 1.
C17_RecencyMonotone ==
    (tv_result.called /\ ~tv_result.out.raised) =>
        /\ \A a, b \in DOMAIN tv_result.applied :
              (/\ tv_result.applied[a].event.kind = tv_result.applied[b].event.kind
               /\ tv_result.applied[a].event.recency_index
                      < tv_result.applied[b].event.recency_index)
                  => Abs(tv_result.applied[a].weight) < Abs(tv_result.applied[b].weight)
        /\ \A a \in DOMAIN tv_result.applied :
              (\A ev \in Range(_prepare_events(tv_call.events)) :
                   ev.recency_index <= tv_result.applied[a].event.recency_index)
                  => tv_result.applied[a].weight
                         = 64 * CHOICE_WEIGHTS[tv_result.applied[a].event.kind]

---------------------------------------------------------------------------
(* Claims about the tag weights                                            *)

\* the events of the call without those of an unknown photo or kind
UsableEvents == SelectSeq(tt_call.events, Usable)

\* the weight of a tag in a sequence of (tag, weight) pairs, 0 when absent
WeightOf(weights, tag) ==
    IF \E i \in DOMAIN weights : weights[i][1] = tag
    THEN (CHOOSE p \in Range(weights) : p[1] = tag)[2]
    ELSE 0

\* C16: aggregate_tag_preferences returns the same tags with the same
\* weights as on the list without the events of an unknown photo or kind.
C16_IgnoredEventsChangeNothing ==
    tt_weights.called =>
        Range(tt_weights.weights)
            = Range(aggregate_tag_preferences(PhotosById, UsableEvents, tt_call.recency_tau))

\* the tag weights of the call, as aggregate_tag_preferences gives them
CallWeights == aggregate_tag_preferences(PhotosById, tt_call.events, tt_call.recency_tau)

\* the place at which a tag was first set in the tag weights of the call
FirstSeen(tag) == CHOOSE i \in DOMAIN CallWeights : CallWeights[i][1] = tag

\* C18: top_tags_from_events returns at most top_k tags (none for a top_k
\* below 1), in falling order of accumulated weight, tags of equal weight
\* in the order in which they were first met.
C18_TopTagsOrdered ==
    tt_result.called =>
        /\ Len(tt_result.tags) <= (IF tt_call.top_k > 0 THEN tt_call.top_k ELSE 0)
        /\ \A i, j \in DOMAIN tt_result.tags :
              i < j =>
                /\ WeightOf(CallWeights, tt_result.tags[i]) >= WeightOf(CallWeights, tt_result.tags[j])
                /\ WeightOf(CallWeights, tt_result.tags[i]) = WeightOf(CallWeights, tt_result.tags[j])
                      => FirstSeen(tt_result.tags[i]) < FirstSeen(tt_result.tags[j])

\* C19: top_tags_from_events returns no tag whose accumulated weight is
\* negative.
C19_NoNegativeTopTag ==
    tt_result.called =>
        \A i \in DOMAIN tt_result.tags : WeightOf(CallWeights, tt_result.tags[i]) >= 0

---------------------------------------------------------------------------
(* Claims about select_next_photo_greedy_mmr                               *)

\* the vectors of the known photos among the last recent_window shown
RecentVectors ==
    LET n == Len(mm_call.shown_ids)
        last == {i \in 1..n : i > n - mm_call.recent_window
                              /\ mm_call.shown_ids[i] \in DOMAIN MmrPhotos}
    IN  {MmrPhotos[mm_call.shown_ids[i]].vector : i \in last}

\* information - lambda_diversity * (the greatest similarity to a recent
\* photo, 0 without one) of a candidate, in 400ths
ClaimedScore(pid) ==
    LET v == MmrPhotos[pid].vector
        sims == {In20ths(_cosine(v, r)) : r \in RecentVectors}
        most == IF sims = {} THEN 0 ELSE CHOOSE s \in sims : \A t \in sims : t <= s
    IN  20 * (20 - Abs(In20ths(_cosine(mm_call.taste_vec, v))))
            - Lambda20(mm_call.lambda_diversity) * most

\* C20: select_next_photo_greedy_mmr returns None for an empty candidate
\* pool; else, no sample being drawn, it returns the known candidate whose
\* score is greatest, the earliest in candidate_ids of those, and what it
\* returns is one of candidate_ids.
C20_GreedyArgmax ==
    (mm_result.called /\ mm_call.sample_k = NoNumber) =>
        LET known == {k \in DOMAIN mm_call.candidate_ids :
                          mm_call.candidate_ids[k] \in DOMAIN MmrPhotos}
        IN  /\ mm_call.candidate_ids = <<>> => mm_result.returned = None
            /\ known # {} =>
                  \E k \in known :
                      /\ mm_result.returned = mm_call.candidate_ids[k]
                      /\ \A m \in known :
                            /\ ClaimedScore(mm_call.candidate_ids[m])
                                   <= ClaimedScore(mm_call.candidate_ids[k])
                            /\ m < k => ClaimedScore(mm_call.candidate_ids[m])
                                            < ClaimedScore(mm_call.candidate_ids[k])
            /\ mm_result.returned # None => mm_result.returned \in Range(mm_call.candidate_ids)

\* a call in which two known candidates have the greatest score and a
\* recent photo lowers the score of another
C20_Witness ==
    /\ mm_result.called
    /\ mm_call.sample_k = NoNumber
    /\ mm_result.returned # None
    /\ RecentVectors # {}
    /\ \E k, m \in DOMAIN mm_call.candidate_ids :
          /\ k < m
          /\ mm_call.candidate_ids[k] = mm_result.returned
          /\ mm_call.candidate_ids[m] \in DOMAIN MmrPhotos
          /\ mm_call.candidate_ids[m] # mm_result.returned
          /\ ClaimedScore(mm_call.candidate_ids[m]) = ClaimedScore(mm_result.returned)
    /\ \E k \in DOMAIN mm_call.candidate_ids :
          /\ mm_call.candidate_ids[k] \in DOMAIN MmrPhotos
          /\ ClaimedScore(mm_call.candidate_ids[k]) < ClaimedScore(mm_result.returned)

---------------------------------------------------------------------------
(* Claims about choose_final_best                                          *)

\* the places of the first three results
FirstThree == {i \in DOMAIN cf_call.results : i <= 3}

---------------------------------------------------------------------------
(* Claims about the rewrite of interpret                                   *)

\* the entries of the returned dict that the rewrite must not reach
DeterministicEntries(returned) ==
    <<returned.queries_multi, returned.tokens, returned.categories, returned.recipient,
      returned.filters>>

\* C22: two calls of interpret with the same tokens, categories, photo ids,
\* budget and recipient hint return the same queries_multi, tokens,
\* categories, recipient and filters, whatever use_llm is in each and
\* whatever the rewrite service does (no key, an error, no content, any
\* string); only llm_phrase_preview may differ.
C22_RewriteLeavesQueriesAlone ==
    ql_earlier.called /\ ql_result.called =>
        DeterministicEntries(ql_earlier.returned) = DeterministicEntries(ql_result.returned)

\* a call without the rewrite followed by a call whose rewrite returned a
\* string, on arguments that give at least one query
C22_Witness ==
    /\ ql_earlier.called /\ ql_result.called
    /\ ~ql_earlier.use_llm /\ ql_result.use_llm
    /\ ql_earlier.returned.llm_phrase_preview = None
    /\ ql_result.returned.llm_phrase_preview = <<"r", "e", "t", "r", "o", " ", "g", "i", "f", "t", "s", " ", "f", "o", "r">>
    /\ ql_result.returned.queries_multi # <<>>
    /\ ql_result.returned.filters # {}

---------------------------------------------------------------------------
(* Claims about the buckets of _compose_queries_multi                      *)

\* the fixed vocabulary of buckets
BucketVocabulary == {<<"F", "a", "s", "h", "i", "o", "n">>, <<"B", "o", "o", "k", "s">>, <<"T", "e", "c", "h">>, <<"O", "u", "t", "d", "o", "o", "r", "s">>, <<"H", "o", "m", "e">>, <<"E", "n", "t", "e", "r", "t", "a", "i", "n", "m", "e", "n", "t">>}

\* the buckets of the pairs the last call of interpret got from
\* _compose_queries_multi, in their order
EmittedBuckets == [k \in DOMAIN qi_result.queries_multi |-> qi_result.queries_multi[k][1]]

\* C23: _compose_queries_multi emits between 1 and 5 (bucket, query)
\* pairs, each bucket one of Fashion, Books, Tech, Outdoors, Home,
\* Entertainment and none twice; when no token and no category matches a
\* bucket and the recipient is not 'couple', the pairs are exactly those of
\* Tech and Books, in that order.
C23_OneToFiveBuckets ==
    qi_result.called =>
        /\ Len(EmittedBuckets) \in 1..5
        /\ Range(EmittedBuckets) \subseteq BucketVocabulary
        /\ Cardinality(Range(EmittedBuckets)) = Len(EmittedBuckets)
        /\ (/\ MatchedBuckets(qi_result.tokens, qi_result.categories) = <<>>
            /\ qi_result.recipient # <<"c", "o", "u", "p", "l", "e">>)
               => EmittedBuckets = <<<<"T", "e", "c", "h">>, <<"B", "o", "o", "k", "s">>>>

\* a call in which all six buckets match: five pairs are emitted
C23_Witness ==
    /\ qi_result.called
    /\ Range(MatchedBuckets(qi_result.tokens, qi_result.categories)) = BucketVocabulary
    /\ Len(EmittedBuckets) = 5

\* a call in which nothing matches and the recipient is not 'couple'
C23_FallbackReached ==
    /\ qi_result.called
    /\ MatchedBuckets(qi_result.tokens, qi_result.categories) = <<>>
    /\ qi_result.recipient # <<"c", "o", "u", "p", "l", "e">>
    /\ EmittedBuckets = <<<<"T", "e", "c", "h">>, <<"B", "o", "o", "k", "s">>>>

---------------------------------------------------------------------------
(* Claims about the tags compose_with_debug accounts for                   *)

\* the tags of the last call, each as the string str() makes of it
CastTags == [i \in DOMAIN qb_call.photo_tags |-> StrTag(qb_call.photo_tags[i].text)]

\* C24: compose_with_debug casts a tag that is not a string to its string:
\* debug raw_tags holds the string form of every tag, and the call returns
\* what it returns for the same tags given as strings (a cast tag kept if
\* allowed, reported in dropped_forbidden if forbidden).
C24_NonStringTagsCast ==
    qb_result.called =>
        /\ qb_result.debug.raw_tags = [i \in DOMAIN CastTags |-> CastTags[i].text]
        /\ qb_result = [called |-> TRUE]
                           @@ compose_with_debug(qb_manifest, CastTags, qb_call.budget)


\* C25: every raw tag of compose_with_debug that is not blank is accounted
\* for in the debug record: its stripped lower-cased form is in
\* dropped_forbidden or in dropped_not_allowed, or its canonical token is
\* in filtered_tokens; the two dropped lists share no entry.
C25_EveryDropObservable ==
    qb_result.called =>
        /\ \A i \in DOMAIN qb_result.debug.raw_tags :
              LET token == Lower(Strip(qb_result.debug.raw_tags[i]))
              IN  token # <<>> =>
                      \/ token \in Range(qb_result.debug.dropped_forbidden)
                      \/ token \in Range(qb_result.debug.dropped_not_allowed)
                      \/ _canonicalise(qb_manifest, token) \in Range(qb_result.debug.filtered_tokens)
        /\ Range(qb_result.debug.dropped_forbidden)
               \cap Range(qb_result.debug.dropped_not_allowed) = {}

---------------------------------------------------------------------------
(* Claims about the pivots of build_greedy_tree                            *)

\* the pool a node of the built tree was built from: its leaves, in the
\* order of leaf_ids (every split keeps that order)
PoolOf(node) ==
    LET under(id) == id \in Range(LeavesOf(node))
    IN  SelectSeq(bt_call.leaf_ids, under)

\* the items of a pool that go left for the left pivot i and the right pivot
\* j: those strictly more similar to i than to j
GoLeft(pool, i, j) ==
    {x \in Range(pool) : CosineGreater(bt_call.embeddings[x], bt_call.embeddings[i],
                                       bt_call.embeddings[j])}

\* |#left - #right| of the pivot pair (i, j)
Imbalance(pool, i, j) ==
    Abs(2 * Cardinality(GoLeft(pool, i, j)) - Len(pool))

\* the alternating fallback is used when no pair the loops try splits the
\* pool into two non-empty parts
UsesFallback(pool) ==
    \A i, j \in Range(pool) : i < j => Imbalance(pool, i, j) = Len(pool)

\* C26: at every internal node built from a pool of at least 3 items
\* without the alternating fallback, the pivot pair has the least imbalance
\* |#left - #right| of all pairs (i, j) of distinct pool members, i taken as
\* left pivot and j as right pivot, whatever the seed.
C26_PivotsMinimiseImbalance ==
    bt_result.called =>
        \A node \in NodesOf(bt_result.tree) :
            IsDict(node) /\ Len(PoolOf(node)) >= 3 /\ ~UsesFallback(PoolOf(node)) =>
                \A i, j \in Range(PoolOf(node)) :
                    i # j => Imbalance(PoolOf(node), node.pair_idx[1], node.pair_idx[2])
                                 <= Imbalance(PoolOf(node), i, j)

\* the same, over the pairs the loops of the code try: i < j
C26_LeastOfTriedPairs ==
    bt_result.called =>
        \A node \in NodesOf(bt_result.tree) :
            IsDict(node) /\ Len(PoolOf(node)) >= 3 /\ ~UsesFallback(PoolOf(node)) =>
                /\ node.pair_idx[1] < node.pair_idx[2]
                /\ Range(LeavesOf(node.left))
                       = GoLeft(PoolOf(node), node.pair_idx[1], node.pair_idx[2])
                /\ \A i, j \in Range(PoolOf(node)) :
                       i < j => Imbalance(PoolOf(node), node.pair_idx[1], node.pair_idx[2])
                                    <= Imbalance(PoolOf(node), i, j)


\* C27: at every internal node of a built tree the first element of
\* pair_idx is a leaf of the left subtree and the second a leaf of the
\* right subtree, whatever the similarities (zero rows and opposite rows
\* included): the image shown for a side is an item that choosing the side
\* keeps.
C27_PivotsOnTheirSides ==
    bt_result.called =>
        \A node \in NodesOf(bt_result.tree) :
            IsDict(node) =>
                /\ node.pair_idx[1] \in Range(LeavesOf(node.left))
                /\ node.pair_idx[2] \in Range(LeavesOf(node.right))

---------------------------------------------------------------------------
(* Claims about the steps of the image-choice session                      *)

\* the tree "neither" builds: over the stored pool and embeddings, with the
\* next seed
ReshuffledTree == build_greedy_tree(img_leaf_ids, AsArray(img_embeddings), img_seed + 1)

\* what a refresh does to the path and the seed
RefreshResetsPath == Refresh => img_path_bits' = <<>> /\ img_seed' = img_seed

\* C28 as stated: 'neither' adds one to the seed and rebuilds the tree over
\* the stored pool and embeddings, and leaves the stored path, the pool
\* and the embeddings as they are; a refresh empties the path and keeps the
\* seed.
C28_NeitherKeepsPath ==
    [][/\ Neither => /\ img_seed' = img_seed + 1
                     /\ img_tree' = ReshuffledTree
                     /\ img_leaf_ids' = img_leaf_ids
                     /\ img_embeddings' = img_embeddings
                     /\ img_path_bits' = img_path_bits
       /\ RefreshResetsPath]_vars

\* C28, amended: 'neither' adds one to the seed and rebuilds the tree over
\* the stored pool and embeddings, which it leaves as they are; the stored
\* path is left as it is when it leads to a node of the new tree and is
\* emptied when it does not; a refresh empties the path and keeps the seed.
C28_NeitherKeepsPathInTree ==
    [][/\ Neither => /\ img_seed' = img_seed + 1
                     /\ img_tree' = ReshuffledTree
                     /\ img_leaf_ids' = img_leaf_ids
                     /\ img_embeddings' = img_embeddings
                     /\ img_path_bits' = IF walk_tree(ReshuffledTree, img_path_bits) = Raised
                                         THEN <<>> ELSE img_path_bits
       /\ RefreshResetsPath]_vars

\* after a reshuffle that changed the tree, a path is stored that was not
\* emptied
C28_Witness ==
    /\ img_seed > 0
    /\ img_path_bits # <<>>
    /\ ~img_caught
    /\ img_tree # build_greedy_tree(img_leaf_ids, AsArray(img_embeddings), img_seed - 1)


\* the items under a node of the tree
ItemsUnder(node) == Range(LeavesOf(node))

\* both subtrees of every internal node hold an item, share none, and
\* together hold the items of the node: the pools of the two recursive calls
EveryCallOnSmallerPool ==
    \A node \in NodesOf(img_tree) :
        IsDict(node) =>
            /\ ItemsUnder(node.left) # {}
            /\ ItemsUnder(node.right) # {}
            /\ ItemsUnder(node.left) \cap ItemsUnder(node.right) = {}
            /\ ItemsUnder(node.left) \cup ItemsUnder(node.right) = ItemsUnder(node)

\* a choice made on a pair of images moves to the chosen child, which holds
\* fewer items
ChoiceShrinks ==
    ((ChooseLeft \/ ChooseRight) /\ IsDict(node_img)) =>
        /\ ~img_caught'
        /\ Len(img_path_bits') = Len(img_path_bits) + 1
        /\ node_img' \in {node_img.left, node_img.right}
        /\ ItemsUnder(node_img') \subseteq ItemsUnder(node_img)
        /\ ItemsUnder(node_img') # ItemsUnder(node_img)

\* C29: on a tree over n >= 1 items, the node shown after k choices from the
\* empty path holds at least one and at most n - k items and is a leaf
\* exactly when it holds one, so a leaf is shown after at most n - 1
\* choices; every choice made on a pair strictly shrinks the set of items
\* under the node shown; every internal node of the tree was split into two
\* smaller non-empty pools.
C29_ChoicesReachLeaf ==
    /\ [](img_tree # NoTree =>
            /\ Len(img_leaf_ids) >= 1
            /\ ItemsUnder(node_img) # {}
            /\ Cardinality(ItemsUnder(node_img)) + Len(img_path_bits) <= Len(img_leaf_ids)
            /\ ~IsDict(node_img) <=> Cardinality(ItemsUnder(node_img)) = 1
            /\ EveryCallOnSmallerPool)
    /\ [][ChoiceShrinks]_vars

\* a leaf reached by exactly n - 1 choices from the empty path on a tree of
\* three or more items, no reshuffle having happened
C29_Witness ==
    /\ img_tree # NoTree
    /\ img_seed = 0
    /\ Len(img_leaf_ids) >= 3
    /\ ~IsDict(node_img)
    /\ Len(img_path_bits) = Len(img_leaf_ids) - 1

---------------------------------------------------------------------------
(* Claims about the reranker and the filter together                       *)

\* the skus of the gifts heuristic_rerank marked passed=True
MarkedPassed(results) == {results[i].sku : i \in {k \in DOMAIN results : results[k].passed}}

\* the skus of the gifts filter_budget_and_age kept
KeptSkus(filtered) == {filtered[i][1].sku : i \in DOMAIN filtered}

\* a gift inside the budget of the call whose ages fit its age prior
InBudgetAndFit(gift) ==
    /\ ~out_of_budget(gift.price, ag_call.budget)
    /\ age_fit(LowerSet(ag_call.age_prior), gift_ages(gift))

\* C30: called on the same gifts with a price, the same budget and the same
\* age prior, heuristic_rerank marks a gift passed=True exactly when
\* filter_budget_and_age keeps it; every returned result marked passed is
\* of a kept gift, and every kept gift is returned when keep_top does not
\* cut the list; a gift in budget whose ages fit is marked passed.
C30_RerankerAgreesWithFilter ==
    ag_result.called =>
        /\ ~ag_result.raised
        /\ MarkedPassed(ag_result.results) = KeptSkus(ag_result.filtered)
        /\ MarkedPassed(ag_result.returned) \subseteq KeptSkus(ag_result.filtered)
        /\ ag_call.keep_top >= Len(ag_call.gifts) =>
              MarkedPassed(ag_result.returned) = KeptSkus(ag_result.filtered)
        /\ \A i \in DOMAIN ag_call.gifts :
              InBudgetAndFit(ag_call.gifts[i]) =>
                  ag_call.gifts[i].sku \in MarkedPassed(ag_result.results)

\* two gifts under an age prior, no taste tag matched: one on the end of
\* the budget passes with the lowest score and is kept, the other is rejected
\* by both for its ages
C30_Witness ==
    /\ ag_result.called
    /\ Len(ag_call.gifts) = 2
    /\ ag_call.age_prior # <<>>
    /\ ag_call.taste_top_tags # <<>>
    /\ Cardinality(KeptSkus(ag_result.filtered)) = 1
    /\ MarkedPassed(ag_result.results) = KeptSkus(ag_result.filtered)
    /\ \E i \in DOMAIN ag_result.results :
          /\ ag_result.results[i].passed
          /\ ag_result.results[i].score = Float(27, 48)
    /\ \E i \in DOMAIN ag_result.results :
          /\ ~ag_result.results[i].age_fit
          /\ ~out_of_budget(ag_call.gifts[CHOOSE k \in DOMAIN ag_call.gifts :
                                ag_call.gifts[k].sku = ag_result.results[i].sku].price,
                            ag_call.budget)

=============================================================================
